---- MODULE Spec2Model ----
(***************************************************************************)
(* Model of the ITGmania remote-control harness                            *)
(* (src/Working Test 1 - WebSocket/itgmania_harness_poc_test2.py):         *)
(*   - the frame codec build_packet / parse_packets,                       *)
(*   - ItgSession (attach, detach, recv_loop, request) running on the      *)
(*     asyncio event loop,                                                 *)
(*   - hello_with_retry and the driver loop of main_async,                 *)
(* and of the kiosk preflight launcher (src/Working Test 4 - QR Patch      *)
(* Launcher/itgmania_kiosk_preflight_launcher2.py): the metrics.ini patch, *)
(* install_or_repair_mod and uninstall_mod over a folder on disk.          *)
(* Seven specifications share the variables:                               *)
(*   SpecCodec    applies the codec to chosen frames and chunkings,        *)
(*   Spec         runs the session against a remote peer and a clock,      *)
(*   SpecRecv     runs recv_loop alone and keeps the lines it prints,      *)
(*   SpecHello    runs hello_with_retry against connects and closes,       *)
(*   SpecDriver   runs the driver loop against connects and heartbeats,    *)
(*   SpecInstall  runs the launcher repeatedly on a chosen folder,         *)
(*   SpecReinstall does so on a folder that is edited between the runs.    *)
(***************************************************************************)
EXTENDS Integers, Sequences, FiniteSets, TLC

VARIABLES
    \* ---- codec harness (SpecCodec) ----
    c_mode,      \* "init" | "roundtrip" | "stream" | "raw"
    c_frames,    \* the (command_id, payload) pairs that were encoded
    c_wire,      \* encoded bytes not yet fed to the decoder
    c_buffer,    \* the bytearray shared by successive parse_packets calls
    c_out,       \* every pair emitted so far, over all parse_packets calls
    c_seen,      \* what the chunking has exercised so far (history)
    c_packet,    \* the bytes the latest build_packet call returned (history)
    c_in,        \* the buffer the latest parse_packets call was given (history)
    c_last,      \* the pairs the latest parse_packets call returned (history)
    \* ---- ItgSession fields ----
    websocket,        \* self.websocket: 0 is None, else the transport
    rx_buffer,        \* self.rx_buffer
    connected_event,  \* self.connected_event.is_set()
    ready_event,      \* self.ready_event.is_set()
    response_queues,  \* self.response_queues: response id -> queue identity
    error_queue,      \* self.error_queue: queue identity
    gen,              \* number of attach calls so far (mints queue identities)
    \* ---- asyncio.Queue objects, by identity <<generation, kind>> ----
    qitems,           \* queue identity -> items held, oldest first
    qgetters,         \* queue identity -> waiting getter futures, oldest first
    \* ---- transports (websocket connections) and their recv_loop ----
    tstate,           \* transport -> "none" | "open" | "closed"
    loop,             \* transport -> "none" | "running" | "exited"
    wire,             \* transport -> frame bytes the peer has not delivered yet
    sent,             \* transport -> packets written by websocket.send
    made,             \* the frames the peers have produced, in order
    heard,            \* history: transports heard a heartbeat from since the last attach
    \* ---- request() calls ----
    req,              \* request -> record of the call's locals and position
    ready,            \* the event loop's queue of callbacks ready to run
    \* ---- time and history ----
    clock,            \* time.perf_counter(), in units of 0.1 s
    hist,             \* history: every item recv_loop has put on a queue
    \* ---- hello_with_retry (SpecHello) ----
    hello,            \* the call's arguments, locals, position and attempts
    \* ---- kiosk preflight launcher (SpecInstall, SpecReinstall) ----
    tree,             \* destination path -> file in the ITGmania folder
    backups,          \* destination path -> its .bak file under the state root
    manifest_file,    \* manifest.json on disk
    block_file,       \* assets/metrics_screenkiosk_block.ini of the mod source
    mod_files,        \* overlay path -> file of the mod source tree
    run,              \* the launcher run in progress: position and locals
    runs,             \* history: the runs that have ended, with their result
    orig,             \* history: the ITGmania folder before the first run
    before,           \* history: the disk when the latest run started
    prior,            \* history: the disk when the run before that one started
    edited,           \* history: files edited from outside since the latest run
    first,            \* history: each file just before the launcher first changed it
    touched,          \* history: files the launcher has created or modified
    \* ---- standard output and the driver loop of main_async ----
    printed,          \* the lines recv_loop has printed for text messages
    driver            \* main_async: position, locals and the cycles started

cvars == <<c_mode, c_frames, c_wire, c_buffer, c_out, c_seen, c_packet, c_in,
           c_last>>
svars == <<websocket, rx_buffer, connected_event, ready_event, response_queues,
           error_queue, gen, qitems, qgetters, tstate, loop, wire, sent, made,
           heard, req, ready, clock, hist>>
hvars == <<hello>>
ivars == <<tree, backups, manifest_file, block_file, mod_files, run, runs, orig,
           before, prior, edited, first, touched>>
dvars == <<printed, driver>>
vars == <<cvars, svars, hvars, ivars, dvars>>

(***************************************************************************)
(* Protocol constants                                                      *)
(***************************************************************************)
CMD_HELLO == 1
CMD_GET_STATUS == 16
RSP_HELLO == 129
RSP_GET_STATUS == 144
RSP_ERROR == 255

Byte == 0..255

Max(a, b) == IF a >= b THEN a ELSE b
(***************************************************************************)
(* Frame codec                                                             *)
(***************************************************************************)
\* encode_uint16_be without the high byte (a faulty variant)
encode_uint16_be_lowonly(value) == <<0, value % 256>>

\* bytes([(value >> 8) & 0xFF, value & 0xFF])
encode_uint16_be(value) == <<(value \div 256) % 256, value % 256>>

\* build_packet with size = len(payload) (a faulty variant)
build_packet_payload_size(command_id, payload) ==
    encode_uint16_be(Len(payload)) \o <<command_id>> \o payload

\* size = 1 + len(payload); encode_uint16_be(size) + bytes([command_id]) + payload
build_packet(command_id, payload) ==
    LET size == 1 + Len(payload)
    IN  encode_uint16_be(size) \o <<command_id>> \o payload

\* One pass that takes an incomplete frame for a whole one (a faulty variant)
FrontFrame_takes_partial(buffer) ==
    IF Len(buffer) < 3 THEN [ok |-> FALSE]
    ELSE LET size == buffer[1] * 256 + buffer[2]
             total_size == IF Len(buffer) < 2 + size THEN Len(buffer) ELSE 2 + size
         IN  [ok |-> TRUE,
              command_id |-> buffer[3],
              payload |-> IF size > 1 THEN SubSeq(buffer, 4, total_size)
                                      ELSE <<>>,
              total_size |-> total_size]

\* One pass of the while loop of parse_packets (lines 60-69): the frame at
\* the front of the buffer, or ok = FALSE where the loop returns.
FrontFrame(buffer) ==
    IF Len(buffer) < 3 THEN [ok |-> FALSE]
    ELSE LET size == buffer[1] * 256 + buffer[2]
             total_size == 2 + size
         IN  IF Len(buffer) < total_size THEN [ok |-> FALSE]
             ELSE [ok |-> TRUE,
                   command_id |-> buffer[3],
                   payload |-> IF size > 1 THEN SubSeq(buffer, 4, total_size)
                                           ELSE <<>>,
                   total_size |-> total_size]

\* parse_packets with an if in place of the while (a faulty variant)
parse_packets_single(buffer) ==
    LET f == FrontFrame(buffer)
    IN  IF ~f.ok THEN [packets |-> <<>>, buffer |-> buffer]
        ELSE [packets |-> <<<<f.command_id, f.payload>>>>,
              buffer |-> SubSeq(buffer, f.total_size + 1, Len(buffer))]

\* parse_packets(buffer): the packets emitted and the buffer left behind
\* (the code mutates the bytearray in place with del buffer[:total_size]).
RECURSIVE parse_packets(_)
parse_packets(buffer) ==
    LET f == FrontFrame(buffer)
    IN  IF ~f.ok THEN [packets |-> <<>>, buffer |-> buffer]
        ELSE LET rest == parse_packets(SubSeq(buffer, f.total_size + 1, Len(buffer)))
             IN  [packets |-> <<<<f.command_id, f.payload>>>> \o rest.packets,
                  buffer |-> rest.buffer]

(***************************************************************************)
(* Codec harness: SpecCodec                                                *)
(***************************************************************************)
MaxStreamFrames == 3

\* The widest payload the 16-bit length field can describe: 1 + len <= 0xFFFF.
MaxPayloadLen == (256 * 256 - 1) - 1

PayloadOfLen(n) == [i \in 1..n |-> (i * 7) % 256]

\* Payload lengths of the single-frame round trip: the smallest ones, the
\* ones around the carry into the high length byte, and the widest.
RoundTripLens == {0, 1, 2, 254, 255, 256, 257}
RoundTripPayloads == {PayloadOfLen(n) : n \in RoundTripLens}
WidePayload == [i \in 1..MaxPayloadLen |-> 0]
WideCommands == {0, CMD_HELLO, RSP_ERROR}

\* Frames of the streaming runs; payloads include bytes that read as a
\* length prefix and as a whole frame.
StreamCommands == {CMD_HELLO, RSP_GET_STATUS}
StreamPayloads == {<<>>, <<123>>, <<0, 1>>, <<0, 1, 1>>}

\* Byte streams that need not be frames: up to MaxRawLen bytes, among them
\* the length prefixes 0, 1 and 2.
MaxRawLen == 4
RawBytes == {0, 1, 2, RSP_GET_STATUS}
RawStreams == UNION {[1..n -> RawBytes] : n \in 1..MaxRawLen}

InitCodec ==
    /\ c_mode = "init"
    /\ c_frames = <<>>
    /\ c_wire = <<>>
    /\ c_buffer = <<>>
    /\ c_out = <<>>
    /\ c_seen = [cutInLength |-> FALSE, manyInOneCall |-> FALSE]
    /\ c_packet = <<>>
    /\ c_in = <<>>
    /\ c_last = <<>>

\* decode run on a buffer holding exactly encode(command_id, payload)
CodecRoundTrip(command_id, payload) ==
    /\ c_mode = "init"
    /\ LET packet == build_packet(command_id, payload)
           r == parse_packets(packet)
       IN  /\ c_packet' = packet
           /\ c_in' = packet
           /\ c_out' = r.packets
           /\ c_last' = r.packets
           /\ c_buffer' = r.buffer
    /\ c_mode' = "roundtrip"
    /\ c_frames' = <<<<command_id, payload>>>>
    /\ UNCHANGED <<c_wire, c_seen, svars, hvars, ivars, dvars>>

\* the peer encodes one more frame onto the byte stream
CodecAppend(command_id, payload) ==
    /\ c_mode \in {"init", "stream"}
    /\ Len(c_frames) < MaxStreamFrames
    /\ c_mode' = "stream"
    /\ c_frames' = Append(c_frames, <<command_id, payload>>)
    /\ c_packet' = build_packet(command_id, payload)
    /\ c_wire' = c_wire \o c_packet'
    /\ UNCHANGED <<c_buffer, c_out, c_seen, c_in, c_last, svars, hvars, ivars, dvars>>

\* the peer writes bytes that no build_packet call produced
CodecRaw(bytes) ==
    /\ c_mode = "init"
    /\ c_mode' = "raw"
    /\ c_wire' = bytes
    /\ UNCHANGED <<c_frames, c_buffer, c_out, c_seen, c_packet, c_in, c_last,
                   svars, hvars, ivars, dvars>>

\* rx_buffer.extend(chunk) followed by parse_packets(rx_buffer)
CodecFeed(n) ==
    /\ c_mode \in {"stream", "raw"}
    /\ n \in 1..Len(c_wire)
    /\ LET r == parse_packets(c_buffer \o SubSeq(c_wire, 1, n))
       IN  /\ c_in' = c_buffer \o SubSeq(c_wire, 1, n)
           /\ c_out' = c_out \o r.packets
           /\ c_last' = r.packets
           /\ c_buffer' = r.buffer
           /\ c_seen' = [cutInLength |-> c_seen.cutInLength \/ Len(r.buffer) = 1,
                         manyInOneCall |-> c_seen.manyInOneCall \/ Len(r.packets) >= 2]
    /\ c_wire' = SubSeq(c_wire, n + 1, Len(c_wire))
    /\ UNCHANGED <<c_mode, c_frames, c_packet, svars, hvars, ivars, dvars>>

(***************************************************************************)
(* Session: bounds, inputs and helpers                                     *)
(***************************************************************************)
MaxTransports == 2     \* connections accepted over the run
MaxReq == 2            \* request() calls made over the run
MaxFrames == 2         \* frames produced by the peers over the run
MaxEvents == 4         \* connections + request() calls + frames over the run
MaxTime == 1           \* the clock stops advancing here
MaxTimeout == 1        \* largest timeout_seconds passed to request()

\* max(0.1, ...) of request(), in clock units of 0.1 s
MinWait == 1

None == 0
Transports == 1..MaxTransports
Reqs == 1..MaxReq
Kinds == {RSP_HELLO, RSP_GET_STATUS}
Timeouts == 1..MaxTimeout
Sides == {"exp", "err"}

\* The command each caller sends for the response it expects.
CommandFor(kind) == IF kind = RSP_HELLO THEN CMD_HELLO ELSE CMD_GET_STATUS

\* Identity of a queue object: <<attach count when created, key>>; the
\* error queue of an attach has a key outside the byte range.
ErrorKey == RSP_ERROR + 1
NoQueue == <<0, 0>>
NoItem == <<0, <<>>>>

\* The payload the peer puts in its n-th frame: the JSON text of n,
\* NUL-terminated in every other frame.
Digit(n) == 48 + n
PeerPayload(n, nul) == IF nul THEN <<Digit(n), 0>> ELSE <<Digit(n)>>

\* payload_to_json: strip one trailing NUL, decode, json.loads.  JSON texts
\* here are decimal numbers; any other text makes json.loads raise.
RECURSIVE DecimalValue(_)
DecimalValue(text) ==
    IF Len(text) = 0 THEN 0
    ELSE 10 * DecimalValue(SubSeq(text, 1, Len(text) - 1)) + (text[Len(text)] - 48)

IsDecimal(text) ==
    /\ Len(text) >= 1
    /\ \A i \in 1..Len(text) : text[i] \in 48..57
    /\ (Len(text) > 1 => text[1] # 48)

payload_to_json(payload) ==
    LET text == IF Len(payload) > 0 /\ payload[Len(payload)] = 0
                THEN SubSeq(payload, 1, Len(payload) - 1)
                ELSE payload
    IN  IF IsDecimal(text) THEN [ok |-> TRUE, value |-> DecimalValue(text)]
        ELSE [ok |-> FALSE, value |-> -1]

\* A request() call that has not been made yet.
IdleTask == [st |-> "none", q |-> NoQueue, item |-> NoItem]
IdleReq ==
    [pc |-> "idle", kind |-> 0, ws |-> None, timeout |-> 0, end_time |-> 0,
     timer |-> 0,
     task |-> [exp |-> IdleTask, err |-> IdleTask], wake |-> "none",
     outcome |-> "none", value |-> -1, got |-> NoItem,
     \* history: the clock when the call ended, the requests that had ended
     \* when it was made, the oldest item of its expected queue at that time
     finished_at |-> 0, after |-> {}, head |-> 0]

Done(r) == req[r].pc = "done"
Called == {r \in Reqs : req[r].pc # "idle"}

\* The run takes at most MaxEvents inputs from outside the session.
MoreEvents == gen + Cardinality(Called) + Len(made) < MaxEvents
DoneReqs == {r \in Reqs : Done(r)}

(***************************************************************************)
(* asyncio.Queue, on a snapshot st of the queues and the requests          *)
(***************************************************************************)
Snapshot ==
    [qi |-> qitems, qg |-> qgetters, rq |-> response_queues, req |-> req,
     hist |-> hist, rd |-> ready]

\* What the event loop has been asked to call (loop.call_soon), in order.
TaskEntry(r, side) == [op |-> "task", r |-> r, side |-> side, q |-> NoQueue]
BatonEntry(q) == [op |-> "baton", r |-> 0, side |-> "", q |-> q]
CallbackEntry(r) == [op |-> "cb", r |-> r, side |-> "", q |-> NoQueue]
ResumeEntry(r) == [op |-> "res", r |-> r, side |-> "", q |-> NoQueue]

\* Queue._wakeup_next(self._getters): resolve the oldest getter future that
\* is not done (cancelled getters have already left the list); the task
\* awaiting it is scheduled.
wakeup_next(st, q) ==
    IF st.qg[q] = <<>> THEN st
    ELSE LET g == Head(st.qg[q])
         IN  [st EXCEPT !.qg[q] = Tail(@),
                        !.req[g[1]].task[g[2]].st = "woken",
                        !.rd = Append(@, TaskEntry(g[1], g[2]))]

\* Queue.put that wakes no getter (a faulty variant)
queue_put_nowake(st, q, item) == [st EXCEPT !.qi[q] = Append(@, item)]

\* Queue.put on an unbounded queue: never suspends; append, wake one getter.
queue_put(st, q, item) ==
    wakeup_next([st EXCEPT !.qi[q] = Append(@, item)], q)

\* ItgSession._get_response_queue: the queue of response_id, created on
\* first use in the current dict.
has_response_queue(st, response_id) == response_id \in DOMAIN st.rq

\* _get_response_queue handing every response id the same queue (a faulty
\* variant)
get_response_queue_shared(st, response_id) ==
    IF has_response_queue(st, response_id) THEN st
    ELSE LET q == <<gen, 0>>
         IN  [st EXCEPT !.rq = (response_id :> q) @@ @,
                        !.qi = @ @@ (q :> <<>>),
                        !.qg = @ @@ (q :> <<>>)]

get_response_queue(st, response_id) ==
    IF has_response_queue(st, response_id) THEN st
    ELSE LET q == <<gen, response_id>>
         IN  [st EXCEPT !.rq = (response_id :> q) @@ @,
                        !.qi = (q :> <<>>) @@ @,
                        !.qg = (q :> <<>>) @@ @]

\* A routing test that sends nothing to the error queue (a faulty variant)
route_to_error_never(command_id) == FALSE

\* if command_id == RSP_ERROR (line 163)
route_to_error(command_id) == command_id = RSP_ERROR

\* recv_loop's routing of one decoded packet (lines 163-166).

dispatch(st, command_id, payload, arrival) ==
    LET id == Len(st.hist) + 1
        item == <<id, payload>>
    IN  IF route_to_error(command_id)
        THEN LET s1 == queue_put(st, error_queue, item)
             IN  [s1 EXCEPT !.hist = Append(@, [arrival EXCEPT !.command_id = command_id,
                                                               !.payload = payload,
                                                               !.q = error_queue])]
        ELSE LET s0 == get_response_queue(st, command_id)
                 s1 == queue_put(s0, s0.rq[command_id], item)
             IN  [s1 EXCEPT !.hist = Append(@, [arrival EXCEPT !.command_id = command_id,
                                                               !.payload = payload,
                                                               !.q = s0.rq[command_id]])]

RECURSIVE dispatch_all(_, _, _)
dispatch_all(st, packets, arrival) ==
    IF packets = <<>> THEN st
    ELSE dispatch_all(dispatch(st, Head(packets)[1], Head(packets)[2], arrival),
                      Tail(packets), arrival)

\* Install a snapshot as the next state.
Commit(st) ==
    /\ qitems' = st.qi
    /\ qgetters' = st.qg
    /\ response_queues' = st.rq
    /\ req' = st.req
    /\ hist' = st.hist
    /\ ready' = st.rd

(***************************************************************************)
(* ItgSession: construction, attach, detach                                *)
(***************************************************************************)
InitSession ==
    /\ websocket = None
    /\ rx_buffer = <<>>
    /\ connected_event = FALSE
    /\ ready_event = FALSE
    /\ response_queues = <<>>
    /\ error_queue = <<0, ErrorKey>>
    /\ gen = 0
    /\ qitems = (<<0, ErrorKey>> :> <<>>)
    /\ qgetters = (<<0, ErrorKey>> :> <<>>)
    /\ tstate = [t \in Transports |-> "none"]
    /\ loop = [t \in Transports |-> "none"]
    /\ wire = [t \in Transports |-> <<>>]
    /\ sent = [t \in Transports |-> <<>>]
    /\ made = <<>>
    /\ heard = {}
    /\ req = [r \in Reqs |-> IdleReq]
    /\ ready = <<>>
    /\ clock = 0
    /\ hist = <<>>

\* ItgSession.attach with the queues left as they were (a faulty variant)
attach_keep_queues(t) ==
    /\ websocket' = t
    /\ rx_buffer' = <<>>
    /\ connected_event' = TRUE
    /\ ready_event' = FALSE
    /\ gen' = gen + 1
    /\ UNCHANGED <<response_queues, error_queue, qitems, qgetters>>

\* ItgSession.attach that keeps the dict of response queues (a faulty
\* variant)
attach_keep_response_queues(t) ==
    /\ websocket' = t
    /\ rx_buffer' = <<>>
    /\ connected_event' = TRUE
    /\ ready_event' = FALSE
    /\ response_queues' = response_queues
    /\ error_queue' = <<gen + 1, ErrorKey>>
    /\ qitems' = (<<gen + 1, ErrorKey>> :> <<>>) @@ qitems
    /\ qgetters' = (<<gen + 1, ErrorKey>> :> <<>>) @@ qgetters
    /\ gen' = gen + 1

\* ItgSession.attach (lines 127-133)
attach(t) ==
    /\ websocket' = t
    /\ rx_buffer' = <<>>
    /\ connected_event' = TRUE
    /\ ready_event' = FALSE
    /\ response_queues' = <<>>
    /\ error_queue' = <<gen + 1, ErrorKey>>
    /\ qitems' = (<<gen + 1, ErrorKey>> :> <<>>) @@ qitems
    /\ qgetters' = (<<gen + 1, ErrorKey>> :> <<>>) @@ qgetters
    /\ gen' = gen + 1

\* ItgSession.detach that leaves ready_event as it is (a faulty variant)
detach_keep_ready ==
    /\ websocket' = None
    /\ connected_event' = FALSE
    /\ ready_event' = ready_event

\* ItgSession.detach (lines 135-138)
detach ==
    /\ websocket' = None
    /\ connected_event' = FALSE
    /\ ready_event' = FALSE

(***************************************************************************)
(* Connections and recv_loop                                               *)
(***************************************************************************)
\* main_async.handler: a client connects; attach, then recv_loop starts
\* iterating over this websocket.
\* asyncio.Event.set() as main_async sees it: a driver suspended in
\* event.wait() has its waiter resolved and will resume; a driver that is
\* elsewhere (or not running) is not affected.
wake_driver(d, event) ==
    IF d.pc = "wait_connected" /\ event = "connected"
    THEN [d EXCEPT !.pc = "connected_woken"]
    ELSE IF d.pc = "wait_ready" /\ event = "ready"
    THEN [d EXCEPT !.pc = "ready_woken"]
    ELSE d

Connect(t) ==
    /\ t = gen + 1
    /\ tstate[t] = "none"
    /\ MoreEvents
    /\ tstate' = [tstate EXCEPT ![t] = "open"]
    /\ attach(t)
    /\ loop' = [loop EXCEPT ![t] = "running"]
    /\ heard' = {}
    /\ driver' = wake_driver(driver, "connected")
    /\ UNCHANGED <<wire, sent, made, req, clock, hist, ready, printed, cvars, hvars,
                   ivars>>

\* The peer closes the connection (or it breaks).
PeerClose(t) ==
    /\ tstate[t] = "open"
    /\ tstate' = [tstate EXCEPT ![t] = "closed"]
    /\ UNCHANGED <<websocket, rx_buffer, connected_event, ready_event,
                   response_queues, error_queue, gen, qitems, qgetters, loop,
                   wire, sent, made, heard, req, clock, hist, ready, cvars, hvars, ivars, dvars>>

\* recv_loop, one binary message (lines 161-166): extend rx_buffer, parse,
\* route every decoded packet.  queue.put never suspends on these unbounded
\* queues, so the message is handled in one step of the event loop.
OnBinary(t, message) ==
    LET parsed == parse_packets(rx_buffer \o message)
        arrival == [command_id |-> 0, payload |-> <<>>, q |-> NoQueue,
                    at |-> clock, transport |-> t, after |-> DoneReqs,
                    called |-> Called, gen |-> gen,
                    pending |-> {r \in Reqs :
                                   /\ req[r].pc = "waiting"
                                   /\ req[r].wake = "none"
                                   /\ \A side \in Sides : req[r].task[side].st = "wait"}]
    IN  /\ rx_buffer' = parsed.buffer
        /\ Commit(dispatch_all(Snapshot, parsed.packets, arrival))

\* The peer sends its next frame; recv_loop receives it as one binary
\* message, or (split) receives only its first HeaderCut bytes for now.
HeaderCut == Len(encode_uint16_be(0))

RecvFrame(t, command_id, split) ==
    /\ loop[t] = "running"
    /\ tstate[t] = "open"
    /\ wire[t] = <<>>
    /\ Len(made) < MaxFrames
    /\ MoreEvents
    /\ LET payload == PeerPayload(Len(made) + 1, Len(made) % 2 = 0)
           packet == build_packet(command_id, payload)
           n == IF split THEN HeaderCut ELSE Len(packet)
       IN  /\ OnBinary(t, SubSeq(packet, 1, n))
           /\ wire' = [wire EXCEPT ![t] = SubSeq(packet, n + 1, Len(packet))]
           /\ made' = Append(made, [command_id |-> command_id, payload |-> payload,
                                    transport |-> t])
    /\ UNCHANGED <<websocket, connected_event, ready_event, error_queue, gen,
                   tstate, loop, sent, heard, clock, cvars, hvars, ivars, dvars>>

\* recv_loop receives the rest of a split frame as the next binary message.
RecvRest(t) ==
    /\ loop[t] = "running"
    /\ tstate[t] = "open"
    /\ wire[t] # <<>>
    /\ OnBinary(t, wire[t])
    /\ wire' = [wire EXCEPT ![t] = <<>>]
    /\ UNCHANGED <<websocket, connected_event, ready_event, error_queue, gen,
                   tstate, loop, sent, made, heard, clock, cvars, hvars, ivars, dvars>>

\* recv_loop, one text message (lines 152-159).  A text message is the
\* sequence of the pieces that str.startswith tells apart.
MaxTexts == 2

HEARTBEAT_MARK == <<"HEARTBEAT", "|">>
SCREEN_MARK == <<"SCREEN", "|">>

\* str.startswith that answers yes to everything (a faulty variant)
startswith_always(message, prefix) == TRUE

\* message.startswith(prefix)
startswith(message, prefix) ==
    /\ Len(message) >= Len(prefix)
    /\ SubSeq(message, 1, Len(prefix)) = prefix

TextMessages ==
    {HEARTBEAT_MARK, HEARTBEAT_MARK \o <<"12">>, SCREEN_MARK \o <<"ScreenGameplay">>,
     SCREEN_MARK \o HEARTBEAT_MARK, <<"HEARTBEAT">>, <<"x">> \o HEARTBEAT_MARK,
     <<"TEXT">>, <<>>}

\* The line printed for the message: INFO {message} for the two markers,
\* INFO TEXT|{message} for the rest (lines 154, 158).
text_line(message) ==
    IF startswith(message, HEARTBEAT_MARK) \/ startswith(message, SCREEN_MARK)
    THEN <<"INFO">> \o message
    ELSE <<"INFO", "TEXT", "|">> \o message

\* What the branch does to the session (lines 155-156, then continue).
on_text(t, message) ==
    /\ ready_event' = (ready_event \/ startswith(message, HEARTBEAT_MARK))
    /\ heard' = IF startswith(message, HEARTBEAT_MARK) THEN heard \cup {t} ELSE heard
    /\ driver' = IF startswith(message, HEARTBEAT_MARK)
                 THEN wake_driver(driver, "ready")
                 ELSE driver

\* Spec does not follow standard output.
RecvText(t, message) ==
    /\ loop[t] = "running"
    /\ tstate[t] = "open"
    /\ on_text(t, message)
    /\ UNCHANGED <<websocket, rx_buffer, connected_event, response_queues,
                   error_queue, gen, qitems, qgetters, tstate, loop, wire, sent,
                   made, req, clock, hist, ready, printed, cvars, hvars, ivars>>

\* The same branch with the printed line kept.
RecvTextPrinted(t, message) ==
    /\ loop[t] = "running"
    /\ tstate[t] = "open"
    /\ Len(printed) < MaxTexts
    /\ on_text(t, message)
    /\ printed' = Append(printed, text_line(message))
    /\ UNCHANGED <<websocket, rx_buffer, connected_event, response_queues,
                   error_queue, gen, qitems, qgetters, tstate, loop, wire, sent,
                   made, req, clock, hist, ready, cvars, hvars, ivars>>

\* recv_loop leaves the async-for once the connection has closed; the
\* finally clause runs detach (lines 168-171)
RecvLoopExit(t) ==
    /\ loop[t] = "running"
    /\ tstate[t] = "closed"
    /\ loop' = [loop EXCEPT ![t] = "exited"]
    /\ detach
    /\ UNCHANGED <<rx_buffer, response_queues, error_queue, gen, qitems,
                   qgetters, tstate, wire, sent, made, heard, req, clock, hist, ready, cvars, hvars, ivars, dvars>>

(***************************************************************************)
(* ItgSession.request                                                      *)
(***************************************************************************)
Finish(r, outcome, value, got) ==
    [req[r] EXCEPT !.pc = "done", !.outcome = outcome, !.value = value,
                   !.got = got, !.finished_at = clock]

\* asyncio.wait's _on_completion is attached to both tasks: the first task
\* of a pass to finish has it scheduled; it resolves the waiter of the pass.
task_finished(st, r) ==
    IF st.req[r].wake = "none"
    THEN [st EXCEPT !.req[r].wake = "cb", !.rd = Append(@, CallbackEntry(r))]
    ELSE st

\* asyncio.Queue.get inside a task, from its start or from the resolution
\* of its getter: wait while the queue is empty, else take the oldest item
\* and finish.
queue_get(st, r, side) ==
    LET q == st.req[r].task[side].q
    IN  IF st.qi[q] = <<>>
        THEN [st EXCEPT !.qg[q] = Append(@, <<r, side>>),
                        !.req[r].task[side].st = "wait"]
        ELSE task_finished([st EXCEPT !.qi[q] = Tail(@),
                                      !.req[r].task[side].st = "done",
                                      !.req[r].task[side].item = Head(st.qi[q])],
                           r)

\* One pass of the while loop up to asyncio.wait (lines 190-199): a task
\* for expected_queue.get() and a task for self.error_queue.get() are
\* created in that order, and asyncio.wait arms its timeout.
StartWait(st, r, expected_queue) ==
    [st EXCEPT
       !.req[r].pc = "waiting",
       !.req[r].task = [exp |-> [st |-> "new", q |-> expected_queue, item |-> NoItem],
                        err |-> [st |-> "new", q |-> error_queue, item |-> NoItem]],
       !.req[r].wake = "none",
       !.req[r].timer = clock + Max(MinWait, st.req[r].end_time - clock),
       !.rd = @ \o <<TaskEntry(r, "exp"), TaskEntry(r, "err")>>]

\* A loop test that finds the deadline passed at once (a faulty variant)
before_deadline_never(end_time) == FALSE

\* while time.perf_counter() < end_time (line 189)
before_deadline(end_time) == clock < end_time

\* The test of line 180 with the test left out (a faulty variant)
NotConnected_never == FALSE

\* if self.websocket is None (line 180)
NotConnected == websocket = None

\* request(), from the call to its suspension in asyncio.wait (lines
\* 180-199): NotConnected without a websocket; websocket.send, which raises
\* when the connection has closed and otherwise returns without suspending;
\* then the expected queue, the deadline and the first pass of the loop.
RequestCall(r, kind, timeout) ==
    /\ req[r].pc = "idle"
    /\ \A r0 \in Reqs : r0 < r => req[r0].pc # "idle"
    /\ MoreEvents
    /\ LET called == [req EXCEPT ![r].kind = kind, ![r].timeout = timeout,
                                 ![r].ws = websocket, ![r].after = DoneReqs]
           ended(outcome) == [called EXCEPT ![r].pc = "done",
                                            ![r].outcome = outcome,
                                            ![r].finished_at = clock]
           s0 == get_response_queue([Snapshot EXCEPT !.req = called], kind)
           expected_queue == s0.rq[kind]
           end_time == clock + timeout
           s1 == [s0 EXCEPT !.req[r].end_time = end_time,
                            !.req[r].head = IF s0.qi[expected_queue] = <<>> THEN 0
                                            ELSE Head(s0.qi[expected_queue])[1]]
       IN  IF NotConnected
           THEN /\ req' = ended("NotConnected")
                /\ UNCHANGED <<sent, qitems, qgetters, response_queues, hist, ready>>
           ELSE IF ~(websocket \in Transports /\ tstate[websocket] = "open")
           THEN /\ req' = ended("SendFailed")
                /\ UNCHANGED <<sent, qitems, qgetters, response_queues, hist, ready>>
           ELSE /\ sent' = [sent EXCEPT ![websocket] =
                               Append(@, build_packet(CommandFor(kind), <<>>))]
                /\ IF before_deadline(end_time)
                   THEN Commit(StartWait(s1, r, expected_queue))
                   ELSE Commit([s1 EXCEPT !.req[r].pc = "done",
                                          !.req[r].outcome = "Timeout",
                                          !.req[r].finished_at = clock])
    /\ UNCHANGED <<websocket, rx_buffer, connected_event, ready_event,
                   error_queue, gen, tstate, loop, wire, made, heard, clock, cvars, hvars, ivars, dvars>>

\* The event loop runs its ready callbacks first in, first out.
Running(op) == ready # <<>> /\ Head(ready).op = op
Popped == [Snapshot EXCEPT !.rd = Tail(@)]

\* A get() task runs: its first step, or the step after its getter was
\* resolved.
TaskStep ==
    /\ Running("task")
    /\ Commit(queue_get(Popped, Head(ready).r, Head(ready).side))
    /\ UNCHANGED <<websocket, rx_buffer, connected_event, ready_event,
                   error_queue, gen, tstate, loop, wire, sent, made, heard, clock, cvars, hvars, ivars, dvars>>

\* A get() task cancelled after its getter was resolved: CancelledError is
\* raised at the await; Queue.get hands the wake-up to the next getter when
\* the queue is not empty, and takes nothing.
queue_get_cancelled(st, q) ==
    IF st.qi[q] # <<>> THEN wakeup_next(st, q) ELSE st

TaskCancelledStep ==
    /\ Running("baton")
    /\ Commit(queue_get_cancelled(Popped, Head(ready).q))
    /\ UNCHANGED <<websocket, rx_buffer, connected_event, ready_event,
                   error_queue, gen, tstate, loop, wire, sent, made, heard, clock, cvars, hvars, ivars, dvars>>

\* asyncio.wait's waiter is resolved, by _on_completion or by the timeout:
\* request() is scheduled to resume.
release_waiter(st, r) ==
    IF st.req[r].wake = "set" THEN st
    ELSE [st EXCEPT !.req[r].wake = "set", !.rd = Append(@, ResumeEntry(r))]

OnCompletion ==
    /\ Running("cb")
    /\ Commit(release_waiter(Popped, Head(ready).r))
    /\ UNCHANGED <<websocket, rx_buffer, connected_event, ready_event,
                   error_queue, gen, tstate, loop, wire, sent, made, heard, clock, cvars, hvars, ivars, dvars>>

\* The timeout of asyncio.wait has run out.
TimerDue(r) ==
    /\ req[r].pc = "waiting"
    /\ req[r].wake # "set"
    /\ clock >= req[r].timer

\* The timeout of asyncio.wait runs on the event loop's clock, which fires
\* a timer up to one clock resolution early, and end_time is read from
\* time.perf_counter() (line 187): in the last MinWait of a pass the
\* timeout may run out while perf_counter() is still short of end_time.
TimerEarly(r) ==
    /\ req[r].pc = "waiting"
    /\ req[r].wake # "set"
    /\ clock < req[r].timer
    /\ req[r].timer - clock <= MinWait

WaitTimeout(r) ==
    /\ TimerDue(r) \/ TimerEarly(r)
    /\ Commit(release_waiter(Snapshot, r))
    /\ UNCHANGED <<websocket, rx_buffer, connected_event, ready_event,
                   error_queue, gen, tstate, loop, wire, sent, made, heard, clock, cvars, hvars, ivars, dvars>>

\* task.cancel() that cancels nothing (a faulty variant)
cancel_task_noop(st, r, side) == st

\* task.cancel() on a pending task (lines 201-202): a task waiting on its
\* getter has the getter cancelled, which leaves the queue's getter list;
\* a task whose getter was already resolved is marked to be cancelled and
\* still runs its scheduled step; a task that has not started never runs.
cancel_task(st, r, side) ==
    LET t == st.req[r].task[side]
        at(e) == e = TaskEntry(r, side)
    IN  IF t.st = "wait"
        THEN [st EXCEPT !.qg[t.q] = SelectSeq(@, LAMBDA g : g # <<r, side>>),
                        !.req[r].task[side].st = "cancelled"]
        ELSE IF t.st = "woken"
        THEN [st EXCEPT !.rd = [k \in DOMAIN @ |->
                                   IF at(@[k]) THEN BatonEntry(t.q) ELSE @[k]],
                        !.req[r].task[side].st = "cancelled"]
        ELSE IF t.st = "new"
        THEN [st EXCEPT !.rd = SelectSeq(@, LAMBDA e : ~at(e)),
                        !.req[r].task[side].st = "cancelled"]
        ELSE st

DoneSides(r) == {side \in Sides : req[r].task[side].st = "done"}

\* next(iter(done)): the set holds one or two tasks hashed by identity, so
\* either of two finished tasks may come first.
FinishedChoices(r) == DoneSides(r)

\* The outcome of request() for the finished task it picked (lines 207-214).
Outcome(r, finished) ==
    LET item == req[r].task[finished].item
        json == payload_to_json(item[2])
    IN  IF ~json.ok THEN Finish(r, "DecodeError", -1, item)
        ELSE IF finished = "err" THEN Finish(r, "RemoteError", json.value, item)
        ELSE Finish(r, "Response", json.value, item)

\* request() resumes from asyncio.wait (lines 201-216).
RequestResume ==
    /\ Running("res")
    /\ LET r == Head(ready).r
           s1 == cancel_task(cancel_task(Popped, r, "exp"), r, "err")
       IN  IF DoneSides(r) = {}
           THEN IF before_deadline(req[r].end_time)
                THEN Commit(StartWait(s1, r, req[r].task.exp.q))
                ELSE Commit([s1 EXCEPT !.req[r] =
                               [s1.req[r] EXCEPT !.pc = "done",
                                                 !.outcome = "Timeout",
                                                 !.finished_at = clock]])
           ELSE \E finished \in FinishedChoices(r) :
                  LET o == Outcome(r, finished)
                  IN  Commit([s1 EXCEPT !.req[r] =
                                [o EXCEPT !.task = s1.req[r].task]])
    /\ UNCHANGED <<websocket, rx_buffer, connected_event, ready_event,
                   error_queue, gen, tstate, loop, wire, sent, made, heard, clock, cvars, hvars, ivars, dvars>>

(***************************************************************************)
(* hello_with_retry                                                        *)
(***************************************************************************)
MaxAttempts == 4       \* largest max_attempts passed to hello_with_retry

\* timeouts = [10.0, 20.0, 30.0] (line 221), in seconds
timeouts == <<10, 20, 30>>

Min(a, b) == IF a <= b THEN a ELSE b

\* timeouts indexed by attempt_index modulo its length (a faulty variant)
timeout_for_wrap(attempt_index) == timeouts[(attempt_index % Len(timeouts)) + 1]

\* timeouts[min(attempt_index, len(timeouts) - 1)] (line 224); Python
\* indexes from 0
timeout_for(attempt_index) == timeouts[Min(attempt_index, Len(timeouts) - 1) + 1]

\* websocket.send that writes nothing (a faulty variant)
websocket_send_nothing(t, packet) == sent

\* await self.websocket.send(packet) on an open connection (line 184)
websocket_send(t, packet) == [sent EXCEPT ![t] = Append(@, packet)]

\* What request() raises, by outcome; every one is an Exception.
Failures == {"NotConnected", "SendFailed", "RemoteError", "Timeout", "DecodeError"}

\* How the wait of a request whose frame was sent can end (lines 186-216).
WaitOutcomes == {"Response", "RemoteError", "Timeout", "DecodeError"}

IdleHello ==
    [pc |-> "idle", max_attempts |-> 0, attempt_index |-> 0,
     timeout_seconds |-> 0, last_exception |-> "None", result |-> -1,
     \* history: timeout, outcome and value of every attempt made
     log |-> <<>>,
     \* history: how many times asyncio.sleep(1.0) was called
     pauses |-> 0]

InitHello == hello = IdleHello

\* for attempt_index in range(max_attempts) (line 223): the next pass, or
\* the raise of line 232 when the range is exhausted.
for_attempt(h, attempt_index) ==
    IF attempt_index < h.max_attempts
    THEN [h EXCEPT !.pc = "loop", !.attempt_index = attempt_index,
                   !.timeout_seconds = timeout_for(attempt_index)]
    ELSE [h EXCEPT !.pc = "raised"]

\* except Exception as exc (lines 227-230): remember it, then sleep.
hello_except(h, exc) ==
    [h EXCEPT !.pc = "sleep", !.last_exception = exc, !.pauses = @ + 1,
              !.log = Append(@, [timeout |-> h.timeout_seconds, outcome |-> exc,
                                 value |-> -1])]

\* hello_with_retry(session, max_attempts) is called (lines 219-223).
HelloStart(max_attempts) ==
    /\ hello.pc = "idle"
    /\ hello' = for_attempt([hello EXCEPT !.max_attempts = max_attempts], 0)
    /\ UNCHANGED <<svars, cvars, ivars, dvars>>

\* One attempt, from the top of the loop body into request(CMD_HELLO,
\* RSP_HELLO, timeout_seconds) up to its wait (lines 224-226, 180-184).
HelloRequest ==
    /\ hello.pc = "loop"
    /\ IF NotConnected
       THEN /\ hello' = hello_except(hello, "NotConnected")
            /\ UNCHANGED sent
       ELSE IF tstate[websocket] # "open"
       THEN /\ hello' = hello_except(hello, "SendFailed")
            /\ UNCHANGED sent
       ELSE /\ sent' = websocket_send(websocket, build_packet(CMD_HELLO, <<>>))
            /\ hello' = [hello EXCEPT !.pc = "request"]
    /\ UNCHANGED <<websocket, rx_buffer, connected_event, ready_event,
                   response_queues, error_queue, gen, qitems, qgetters, tstate,
                   loop, wire, made, heard, req, ready, clock, hist, cvars, ivars, dvars>>

\* The request of the attempt ends (lines 186-216): it returns the decoded
\* payload of the peer's response, which hello_with_retry returns, or it
\* raises.
HelloRequestEnds(outcome, nul) ==
    /\ hello.pc = "request"
    /\ LET json == payload_to_json(PeerPayload(hello.attempt_index + 1, nul))
       IN  hello' =
             IF outcome = "Response" /\ json.ok
             THEN [hello EXCEPT !.pc = "returned", !.result = json.value,
                                !.log = Append(@, [timeout |-> hello.timeout_seconds,
                                                   outcome |-> outcome,
                                                   value |-> json.value])]
             ELSE hello_except(hello, outcome)
    /\ UNCHANGED <<svars, cvars, ivars, dvars>>

\* await asyncio.sleep(1.0) returns (line 230); the loop goes on.
HelloSleepDone ==
    /\ hello.pc = "sleep"
    /\ hello' = for_attempt(hello, hello.attempt_index + 1)
    /\ UNCHANGED <<svars, cvars, ivars, dvars>>

(***************************************************************************)
(* Kiosk preflight launcher                                                *)
(* (src/Working Test 4 - QR Patch Launcher/                                *)
(*  itgmania_kiosk_preflight_launcher2.py): metrics.ini patching           *)
(***************************************************************************)
\* Lines of metrics.ini and of the kiosk block, without their line ending.
H_COMMON == "[Common]"
H_KIOSK == "[ScreenKiosk]"
H_ATTRACT == "[ScreenAttract]"
IS_KIOSK == "InitialScreen=\"ScreenKiosk\""
IS_OTHER == "InitialScreen=\"ScreenInit\""
CLASS_ATTRACT == "Class=\"ScreenAttract\""
NEXT_CASUAL == "NextScreen=\"ScreenSelectMusicCasual\""
COMMENT_LINE == "# ScreenKiosk"
NEXT_OTHER == "NextScreen=\"ScreenSelectMusic\""
BLANK == ""

\* A file: whether it exists, its lines, whether its line ending is \r\n,
\* and whether its last line has a line ending.
Absent == [exists |-> FALSE, lines |-> <<>>, crlf |-> FALSE, final |-> TRUE]
FileOf(lines, crlf, final) ==
    [exists |-> TRUE, lines |-> lines, crlf |-> crlf, final |-> final]

\* section_header_pattern (line 124) matches the header lines; the section
\* name is what stands between the brackets.
IsHeader(line) == line \in {H_COMMON, H_KIOSK, H_ATTRACT}

\* line.lstrip().startswith("InitialScreen=") (line 157)
IsInitialScreenLine(line) == line \in {IS_KIOSK, IS_OTHER}

\* section_ranges_by_name (lines 123-141): the range <<start, end>> of the
\* section called header, end exclusive, indexes from 1; a later section of
\* the same name replaces an earlier one in the dict; <<0, 0>> when there
\* is none.
HasSection(lines, header) == \E i \in 1..Len(lines) : lines[i] = header

section_range(lines, header) ==
    IF ~HasSection(lines, header) THEN <<0, 0>>
    ELSE LET start == CHOOSE i \in 1..Len(lines) :
                          /\ lines[i] = header
                          /\ \A j \in (i + 1)..Len(lines) : lines[j] # header
             later == {j \in (start + 1)..Len(lines) : IsHeader(lines[j])}
             end == IF later = {} THEN Len(lines) + 1
                    ELSE CHOOSE j \in later : \A k \in later : j <= k
         IN  <<start, end>>

\* str.strip() of joined lines: blank lines at both ends go.
Strip(lines) ==
    LET full == {i \in 1..Len(lines) : lines[i] # BLANK}
    IN  IF full = {} THEN <<>>
        ELSE LET from == CHOOSE i \in full : \A k \in full : i <= k
                 upto == CHOOSE i \in full : \A k \in full : i >= k
             IN  SubSeq(lines, from, upto)

\* ensure_common_initial_screen that adds the section it does not find (a
\* faulty variant)
ensure_common_initial_screen_adds_section(lines) ==
    IF ~HasSection(lines, H_COMMON)
    THEN [ok |-> TRUE, changed |-> TRUE, lines |-> <<H_COMMON, IS_KIOSK>> \o lines]
    ELSE [ok |-> TRUE, changed |-> FALSE, lines |-> lines]

\* ensure_common_initial_screen (lines 144-171)
ensure_common_initial_screen(lines) ==
    IF ~HasSection(lines, H_COMMON)
    THEN [ok |-> FALSE, lines |-> lines, changed |-> FALSE]
    ELSE LET common == section_range(lines, H_COMMON)
             found == {i \in (common[1] + 1)..(common[2] - 1) :
                          IsInitialScreenLine(lines[i])}
         IN  IF found = {}
             THEN [ok |-> TRUE, changed |-> TRUE,
                   lines |-> SubSeq(lines, 1, common[1]) \o <<IS_KIOSK>>
                             \o SubSeq(lines, common[1] + 1, Len(lines))]
             ELSE LET index == CHOOSE i \in found : \A k \in found : i <= k
                  IN  IF lines[index] # IS_KIOSK
                      THEN [ok |-> TRUE, changed |-> TRUE,
                            lines |-> [lines EXCEPT ![index] = IS_KIOSK]]
                      ELSE [ok |-> TRUE, changed |-> FALSE, lines |-> lines]

\* ensure_screen_kiosk_section (lines 174-203)
ensure_screen_kiosk_section(lines, block_lines) ==
    IF HasSection(lines, H_KIOSK)
    THEN LET section == section_range(lines, H_KIOSK)
             existing_block == Strip(SubSeq(lines, section[1], section[2] - 1))
             desired_block == Strip(block_lines)
         IN  IF existing_block # desired_block
             THEN [changed |-> TRUE,
                   lines |-> SubSeq(lines, 1, section[1] - 1) \o block_lines
                             \o <<BLANK>> \o SubSeq(lines, section[2], Len(lines))]
             ELSE [changed |-> FALSE, lines |-> lines]
    ELSE LET insertion_index ==
                 IF HasSection(lines, H_ATTRACT)
                 THEN section_range(lines, H_ATTRACT)[1]
                 ELSE Len(lines) + 1
         IN  [changed |-> TRUE,
              lines |-> SubSeq(lines, 1, insertion_index - 1) \o block_lines
                        \o <<BLANK>> \o SubSeq(lines, insertion_index, Len(lines))]

\* substring in metrics_text (line 213), for a substring that is one line
Contains(lines, line) == \E i \in 1..Len(lines) : lines[i] = line

\* metrics_file_has_kiosk_mod (lines 206-213): all four substrings occur

metrics_file_has_kiosk_mod(lines) ==
    /\ Contains(lines, IS_KIOSK)
    /\ Contains(lines, H_KIOSK)
    /\ Contains(lines, NEXT_CASUAL)
    /\ Contains(lines, CLASS_ATTRACT)

\* compute_patched_metrics_text (lines 216-240) on the text of a file and
\* the text of the kiosk block: ok is FALSE where RuntimeError is raised;
\* the patched text has every line ended by the newline sequence detected.
compute_patched_metrics_text(metrics, block) ==
    IF metrics_file_has_kiosk_mod(metrics.lines)
    THEN [ok |-> TRUE, changed |-> FALSE, text |-> metrics]
    ELSE LET lines == IF metrics.lines = <<>> THEN <<BLANK>> ELSE metrics.lines
             common == ensure_common_initial_screen(lines)
             kiosk == ensure_screen_kiosk_section(common.lines, block.lines)
         IN  IF ~common.ok THEN [ok |-> FALSE, changed |-> FALSE, text |-> metrics]
             ELSE IF ~(common.changed \/ kiosk.changed)
             THEN [ok |-> TRUE, changed |-> FALSE, text |-> metrics]
             ELSE [ok |-> TRUE, changed |-> TRUE,
                   text |-> FileOf(kiosk.lines, metrics.crlf, TRUE)]

(***************************************************************************)
(* Kiosk preflight launcher: install_or_repair_mod and uninstall_mod       *)
(***************************************************************************)
MaxLines == 2          \* longest metrics.ini the launcher is given, in lines
MaxOverlay == 1        \* payload files in the mod source tree
MaxRuns == 4           \* launcher runs

\* Destination paths: metrics.ini, then the payload files of the mod source.
METRICS == 0
OverlayPaths == 1..MaxOverlay
Paths == {METRICS} \cup OverlayPaths

\* backup_path of a manifest entry that has none (backup_file_path=None)
NoBackup == -1

\* Lines a metrics.ini given to the launcher is made of.
MetricsLines ==
    {H_COMMON, H_KIOSK, H_ATTRACT, IS_KIOSK, IS_OTHER, CLASS_ATTRACT, NEXT_CASUAL}

MetricsTexts ==
    UNION {[1..n -> MetricsLines] : n \in 0..MaxLines}

\* The kiosk block of the mod source: the section the launcher looks for in
\* metrics_file_has_kiosk_mod; the section with another next screen; the
\* latter under a comment line.
StandardBlock == <<H_KIOSK, CLASS_ATTRACT, NEXT_CASUAL>>
CustomBlock == <<H_KIOSK, CLASS_ATTRACT, NEXT_OTHER>>
CommentedBlock == <<COMMENT_LINE, H_KIOSK, CLASS_ATTRACT, NEXT_OTHER>>
BlockTexts == {StandardBlock, CustomBlock, CommentedBlock}

\* Payload bytes: the file of the mod source, and another file found at
\* its destination.
ModPayload(p) == FileOf(<<"-- ScreenKiosk overlay">>, FALSE, TRUE)
OtherPayload == FileOf(<<"-- local overlay">>, FALSE, TRUE)

NoManifest == [exists |-> FALSE, files |-> <<>>]
IdleRun ==
    [pc |-> "idle", op |-> "none", manifest_data |-> <<>>, patched |-> Absent,
     todo |-> {}, current |-> METRICS, change_kind |-> "none"]

Disk == [tree |-> tree, backups |-> backups, manifest_file |-> manifest_file]

InitInstall ==
    /\ tree = [p \in Paths |-> Absent]
    /\ backups = [p \in Paths |-> Absent]
    /\ manifest_file = NoManifest
    /\ block_file = Absent
    /\ mod_files = [p \in OverlayPaths |-> Absent]
    /\ run = [IdleRun EXCEPT !.pc = "unset"]
    /\ runs = <<>>
    /\ orig = [p \in Paths |-> Absent]
    /\ before = [tree |-> [p \in Paths |-> Absent],
                 backups |-> [p \in Paths |-> Absent],
                 manifest_file |-> NoManifest]
    /\ prior = [tree |-> [p \in Paths |-> Absent],
                backups |-> [p \in Paths |-> Absent],
                manifest_file |-> NoManifest]
    /\ edited = {}
    /\ first = [p \in Paths |-> Absent]
    /\ touched = {}

\* The folders the launcher is pointed at: an ITGmania folder with or
\* without metrics.ini and payload files, a mod source with or without its
\* kiosk block; no manifest and no backups yet.
Setup(metrics, overlay, block) ==
    /\ run.pc = "unset"
    /\ tree' = [p \in Paths |-> IF p = METRICS THEN metrics ELSE overlay[p]]
    /\ orig' = tree'
    /\ block_file' = block
    /\ mod_files' = [p \in OverlayPaths |-> ModPayload(p)]
    /\ run' = IdleRun
    /\ UNCHANGED <<backups, manifest_file, runs, before, prior, edited, first,
                   touched,
                   svars, cvars, hvars, dvars>>

\* compute_backup_path (lines 243-246): one .bak path per destination
compute_backup_path(p) == p

\* backup_file_once that copies nothing (a faulty variant)
backup_file_never(bk, source_file, p) == bk

\* backup_file_once (lines 249-253)
backup_file_once(bk, source_file, p) ==
    IF bk[p].exists THEN bk ELSE [bk EXCEPT ![p] = source_file]

\* load_manifest (lines 256-263): the "files" list
load_manifest == IF ~manifest_file.exists THEN <<>> ELSE manifest_file.files

\* save_manifest (lines 266-272)
save_manifest(manifest_data) == [exists |-> TRUE, files |-> manifest_data]

\* record_file_change (lines 275-302)
record_file_change(manifest_data, p, backup_path, change_kind) ==
    IF \E k \in 1..Len(manifest_data) : manifest_data[k].destination_path = p
    THEN manifest_data
    ELSE Append(manifest_data, [destination_path |-> p,
                                backup_path |-> backup_path,
                                change_kind |-> change_kind])

\* A run ends: it returns (ok) or an exception leaves main (failed).
EndRun(op, result) ==
    /\ runs' = Append(runs, [op |-> op, result |-> result])
    /\ run' = IdleRun

\* history: the launcher writes destination p
Touch(p) ==
    /\ touched' = touched \cup {p}
    /\ first' = IF tree[p].exists /\ ~first[p].exists
                THEN [first EXCEPT ![p] = tree[p]] ELSE first

\* install_or_repair_mod up to the patch decision (lines 393-412): the two
\* existence checks, the manifest, the patched text.
InstallStart ==
    /\ run.pc = "idle"
    /\ Len(runs) < MaxRuns
    /\ before' = Disk
    /\ prior' = before
    /\ edited' = {}
    /\ IF ~tree[METRICS].exists \/ ~block_file.exists
       THEN EndRun("install", "failed")
       ELSE LET patch == compute_patched_metrics_text(tree[METRICS], block_file)
                started == [IdleRun EXCEPT !.op = "install",
                                           !.manifest_data = load_manifest,
                                           !.todo = OverlayPaths]
            IN  IF ~patch.ok THEN EndRun("install", "failed")
                ELSE /\ run' = IF patch.changed
                               THEN [started EXCEPT !.pc = "metrics_backup",
                                                    !.patched = patch.text]
                               ELSE [started EXCEPT !.pc = "copy"]
                     /\ UNCHANGED runs
    /\ UNCHANGED <<tree, backups, manifest_file, block_file, mod_files, orig,
                   first, touched, svars, cvars, hvars, dvars>>

\* Step 1, the backup (lines 415-416)
InstallMetricsBackup ==
    /\ run.pc = "metrics_backup"
    /\ backups' = backup_file_once(backups, tree[METRICS], compute_backup_path(METRICS))
    /\ run' = [run EXCEPT !.pc = "metrics_write"]
    /\ UNCHANGED <<tree, manifest_file, block_file, mod_files, runs, orig,
                   before, prior, edited,
                   first, touched, svars, cvars, hvars, dvars>>

\* Step 1, the write and the manifest entry in memory (lines 417-426)
InstallMetricsWrite ==
    /\ run.pc = "metrics_write"
    /\ tree' = [tree EXCEPT ![METRICS] = run.patched]
    /\ Touch(METRICS)
    /\ run' = [run EXCEPT !.pc = "copy",
                          !.manifest_data =
                              record_file_change(@, METRICS,
                                                 compute_backup_path(METRICS), "modify")]
    /\ UNCHANGED <<backups, manifest_file, block_file, mod_files, runs, orig,
                   before, prior, edited, svars, cvars, hvars, dvars>>

\* copy_mod_files_from_source_tree, one source file up to its copy (lines
\* 336-360 and 377): rglob yields the files in no particular order; a
\* destination with the same bytes is left alone, one with other bytes is
\* backed up, a missing one is to be created.
InstallCopy(p) ==
    /\ run.pc = "copy"
    /\ p \in run.todo
    /\ IF tree[p].exists /\ tree[p] = mod_files[p]
       THEN /\ run' = [run EXCEPT !.todo = @ \ {p}]
            /\ UNCHANGED backups
       ELSE IF tree[p].exists
       THEN /\ backups' = backup_file_once(backups, tree[p], compute_backup_path(p))
            /\ run' = [run EXCEPT !.pc = "copy_write", !.current = p,
                                  !.change_kind = "modify"]
       ELSE /\ run' = [run EXCEPT !.pc = "copy_write", !.current = p,
                                  !.change_kind = "create"]
            /\ UNCHANGED backups
    /\ UNCHANGED <<tree, manifest_file, block_file, mod_files, runs, orig,
                   before, prior, edited,
                   first, touched, svars, cvars, hvars, dvars>>

\* copy_mod_files_from_source_tree, the copy and the manifest entry in
\* memory (lines 362-375, 377-389)
InstallCopyWrite ==
    /\ run.pc = "copy_write"
    /\ LET p == run.current
       IN  /\ tree' = [tree EXCEPT ![p] = mod_files[p]]
           /\ Touch(p)
           /\ run' = [run EXCEPT
                        !.pc = "copy", !.todo = @ \ {p},
                        !.manifest_data =
                            record_file_change(@, p,
                                IF run.change_kind = "modify"
                                THEN compute_backup_path(p) ELSE NoBackup,
                                run.change_kind)]
    /\ UNCHANGED <<backups, manifest_file, block_file, mod_files, runs, orig,
                   before, prior, edited, svars, cvars, hvars, dvars>>

\* save_manifest at the end of install_or_repair_mod (line 445)
InstallSaveManifest ==
    /\ run.pc = "copy"
    /\ run.todo = {}
    /\ manifest_file' = save_manifest(run.manifest_data)
    /\ EndRun("install", "ok")
    /\ UNCHANGED <<tree, backups, block_file, mod_files, orig, before, prior,
                   edited, first,
                   touched, svars, cvars, hvars, dvars>>

\* The file operation install_or_repair_mod is about to make raises OSError
\* (a destination that cannot be written, a full disk): the exception
\* leaves install_or_repair_mod, which has no handler.
InstallFails ==
    /\ run.op = "install"
    /\ run.pc \in {"metrics_backup", "metrics_write", "copy", "copy_write"}
    /\ EndRun("install", "failed")
    /\ UNCHANGED <<tree, backups, manifest_file, block_file, mod_files, orig,
                   before, prior, edited, first, touched, svars, cvars, hvars, dvars>>

\* uninstall_mod's loop leaving the files it created in place (a faulty
\* variant)
uninstall_entries_restore_only(files, entries) ==
    [ok |-> TRUE,
     tree |-> [p \in Paths |->
                 IF \E k \in 1..Len(entries) :
                        /\ entries[k].destination_path = p
                        /\ entries[k].change_kind = "modify"
                 THEN backups[p] ELSE files[p]]]

\* uninstall_mod's loop over the manifest entries (lines 457-478): the
\* tree it leaves, and ok = FALSE where it raises.
RECURSIVE uninstall_entries(_, _)
uninstall_entries(files, entries) ==
    IF entries = <<>> THEN [ok |-> TRUE, tree |-> files]
    ELSE LET entry == Head(entries)
             p == entry.destination_path
         IN  IF entry.change_kind = "modify"
             THEN IF entry.backup_path = NoBackup \/ ~backups[entry.backup_path].exists
                  THEN [ok |-> FALSE, tree |-> files]
                  ELSE uninstall_entries(
                           [files EXCEPT ![p] = backups[entry.backup_path]],
                           Tail(entries))
             ELSE IF entry.change_kind = "create"
             THEN uninstall_entries([files EXCEPT ![p] = Absent], Tail(entries))
             ELSE [ok |-> FALSE, tree |-> files]

\* uninstall_mod (lines 448-480)
UninstallRun ==
    /\ run.pc = "idle"
    /\ Len(runs) < MaxRuns
    /\ before' = Disk
    /\ prior' = before
    /\ edited' = {}
    /\ IF ~manifest_file.exists
       THEN /\ EndRun("uninstall", "ok")
            /\ UNCHANGED tree
       ELSE LET done == uninstall_entries(tree, load_manifest)
            IN  /\ tree' = done.tree
                /\ EndRun("uninstall", IF done.ok THEN "ok" ELSE "failed")
    /\ UNCHANGED <<backups, manifest_file, block_file, mod_files, orig, first,
                   touched, svars, cvars, hvars, dvars>>

\* What somebody other than the launcher leaves at a destination while the
\* mod is uninstalled: a metrics.ini of another theme version, another
\* payload file, or none.
EditedMetrics ==
    {FileOf(<<H_COMMON, IS_OTHER>>, FALSE, TRUE), FileOf(<<H_COMMON>>, FALSE, TRUE)}
EditedPayload == FileOf(<<"-- edited overlay">>, FALSE, TRUE)
OutsideFiles(p) ==
    IF p = METRICS THEN EditedMetrics ELSE {OtherPayload, EditedPayload, Absent}

\* Between two runs of main (lines 490-503), after an uninstall that
\* succeeded, destination p is edited from outside; the state folder
\* (backups, manifest) is left alone.
OutsideEdit(p, file) ==
    /\ run.pc = "idle"
    /\ Len(runs) >= 1
    /\ runs[Len(runs)] = [op |-> "uninstall", result |-> "ok"]
    /\ p \notin edited
    /\ file # tree[p]
    /\ tree' = [tree EXCEPT ![p] = file]
    /\ edited' = edited \cup {p}
    /\ UNCHANGED <<backups, manifest_file, block_file, mod_files, run, runs, orig,
                   before, prior, first, touched, svars, cvars, hvars, dvars>>

(***************************************************************************)
(* Time                                                                    *)
(***************************************************************************)
\* The event loop has nothing ready to run: every task is suspended on a
\* future that is not resolved and no recv_loop has a close to handle.
Quiescent ==
    /\ ready = <<>>
    /\ \A r \in Reqs : ~TimerDue(r)
    /\ \A t \in Transports : ~(loop[t] = "running" /\ tstate[t] = "closed")

\* The clock advances only while the event loop is idle.
Tick ==
    /\ clock < MaxTime
    /\ Quiescent
    /\ clock' = clock + 1
    /\ UNCHANGED <<websocket, rx_buffer, connected_event, ready_event,
                   response_queues, error_queue, gen, qitems, qgetters, tstate,
                   loop, wire, sent, made, heard, req, hist, ready, cvars, hvars, ivars, dvars>>

(***************************************************************************)
(* main_async: the driver loop (lines 576-660)                             *)
(***************************************************************************)
MaxCycles == 2
\* run_cycle calls followed in one run (a cycle that raises is started again)
MaxStarted == 3

\* main_async has not been called.
IdleDriver ==
    [pc |-> "idle", cycles |-> 0, cycle_index |-> 0,
     \* history: for every run_cycle call, the session as it was then
     started |-> <<>>]

\* `while session.connected_event.is_set()` (line 598) and its body up to
\* the await of run_cycle (lines 599-620), or the way out of the loop: back
\* to the top of the outer loop, where connected_event.wait() suspends the
\* driver because the event is clear (lines 660, 587-589).
enter_cycles(d) ==
    IF ~connected_event THEN [d EXCEPT !.pc = "wait_connected"]
    ELSE IF d.cycle_index > d.cycles THEN [d EXCEPT !.pc = "returned"]
    ELSE [d EXCEPT !.pc = "cycle",
                   !.started = Append(@, [cycle_index |-> d.cycle_index,
                                          websocket |-> websocket,
                                          connected |-> connected_event,
                                          ready |-> ready_event,
                                          heartbeat |-> websocket \in heard])]

\* await asyncio.wait_for(session.ready_event.wait(), timeout=15.0) (lines
\* 591-592): no wait when the event is set, else suspended.
enter_wait_ready(d) ==
    IF ready_event THEN enter_cycles(d) ELSE [d EXCEPT !.pc = "wait_ready"]

\* The top of the outer loop (lines 587-589): no wait when connected_event
\* is set, else suspended.
enter_top(d) ==
    IF connected_event THEN enter_wait_ready(d)
    ELSE [d EXCEPT !.pc = "wait_connected"]

\* main_async(cycles, ...) is called and runs to its first suspension.
DriverStart(cycles) ==
    /\ driver.pc = "idle"
    /\ driver' = enter_top([driver EXCEPT !.cycles = cycles, !.cycle_index = 1])
    /\ UNCHANGED <<printed, svars, cvars, hvars, ivars>>

\* The driver resumes from connected_event.wait() (line 589) or from the
\* wait for ready_event (line 592).
DriverResume ==
    /\ driver.pc \in {"connected_woken", "ready_woken"}
    /\ driver' = IF driver.pc = "connected_woken" THEN enter_wait_ready(driver)
                 ELSE enter_cycles(driver)
    /\ UNCHANGED <<printed, svars, cvars, hvars, ivars>>

\* The 15 s of wait_for run out with ready_event clear (lines 593-595):
\* the driver warns and sleeps 1 s.
DriverReadyTimeout ==
    /\ driver.pc = "wait_ready"
    /\ driver' = [driver EXCEPT !.pc = "sleep_retry"]
    /\ UNCHANGED <<printed, svars, cvars, hvars, ivars>>

\* run_cycle returns (lines 625-658: the results are logged, cycle_index is
\* incremented, the driver sleeps 1 s) or raises (lines 621-623: break,
\* then the top of the outer loop).
DriverCycleEnds(raised) ==
    /\ driver.pc = "cycle"
    /\ raised => Len(driver.started) < MaxStarted
    /\ driver' = IF raised THEN enter_top(driver)
                 ELSE [driver EXCEPT !.pc = "sleep_cycle", !.cycle_index = @ + 1]
    /\ UNCHANGED <<printed, svars, cvars, hvars, ivars>>

\* asyncio.sleep(1.0) returns: after a cycle the inner loop tests
\* connected_event again (lines 658, 598); after the warning the outer
\* loop starts over (lines 595-596).
DriverSleepDone ==
    /\ driver.pc \in {"sleep_cycle", "sleep_retry"}
    /\ driver' = IF driver.pc = "sleep_cycle" THEN enter_cycles(driver)
                 ELSE enter_top(driver)
    /\ UNCHANGED <<printed, svars, cvars, hvars, ivars>>

InitDriver ==
    /\ printed = <<>>
    /\ driver = IdleDriver

Init == InitSession /\ InitCodec /\ InitHello /\ InitInstall /\ InitDriver

Next ==
    \/ \E t \in Transports : Connect(t)
    \/ \E t \in Transports, command_id \in Kinds \cup {RSP_ERROR}, split \in BOOLEAN :
          RecvFrame(t, command_id, split)
    \/ \E t \in Transports : RecvRest(t)
    \/ \E t \in Transports : PeerClose(t)
    \/ \E t \in Transports, message \in TextMessages : RecvText(t, message)
    \/ \E t \in Transports : RecvLoopExit(t)
    \/ \E r \in Reqs, kind \in Kinds, timeout \in Timeouts : RequestCall(r, kind, timeout)
    \/ TaskStep
    \/ TaskCancelledStep
    \/ OnCompletion
    \/ \E r \in Reqs : WaitTimeout(r)
    \/ RequestResume
    \/ Tick

Spec == Init /\ [][Next]_vars

\* The session is not running under SpecCodec: its variables keep the
\* values the constructor gives them.
CodecNext ==
    \/ \E command_id \in Byte, payload \in RoundTripPayloads :
          CodecRoundTrip(command_id, payload)
    \/ \E command_id \in WideCommands : CodecRoundTrip(command_id, WidePayload)
    \/ \E command_id \in StreamCommands, payload \in StreamPayloads :
          CodecAppend(command_id, payload)
    \/ \E bytes \in RawStreams : CodecRaw(bytes)
    \/ \E n \in 1..Len(c_wire) : CodecFeed(n)

SpecCodec == Init /\ [][CodecNext]_vars

\* The receiving side alone: connections, frames and text messages reach
\* recv_loop, no request() is called, and the printed lines are kept.
RecvNext ==
    \/ \E t \in Transports : Connect(t)
    \/ \E t \in Transports, command_id \in Kinds \cup {RSP_ERROR}, split \in BOOLEAN :
          RecvFrame(t, command_id, split)
    \/ \E t \in Transports : RecvRest(t)
    \/ \E t \in Transports : PeerClose(t)
    \/ \E t \in Transports, message \in TextMessages : RecvTextPrinted(t, message)
    \/ \E t \in Transports : RecvLoopExit(t)

SpecRecv == Init /\ [][RecvNext]_vars

\* main_async: the server accepts connections while the driver loop runs;
\* what run_cycle sends and receives is not followed.
DriverNext ==
    \/ \E cycles \in 1..MaxCycles : DriverStart(cycles)
    \/ driver.pc # "idle" /\ \E t \in Transports : Connect(t)
    \/ \E t \in Transports : PeerClose(t)
    \/ \E t \in Transports, message \in TextMessages : RecvText(t, message)
    \/ \E t \in Transports : RecvLoopExit(t)
    \/ DriverResume
    \/ DriverReadyTimeout
    \/ \E raised \in BOOLEAN : DriverCycleEnds(raised)
    \/ DriverSleepDone

SpecDriver == Init /\ [][DriverNext]_vars

\* hello_with_retry against connections that come and go; the queues and
\* request() calls of Spec are not running.
HelloNext ==
    \/ \E t \in Transports : Connect(t)
    \/ \E t \in Transports : PeerClose(t)
    \/ \E t \in Transports : RecvLoopExit(t)
    \/ \E max_attempts \in 0..MaxAttempts : HelloStart(max_attempts)
    \/ HelloRequest
    \/ \E outcome \in WaitOutcomes, nul \in BOOLEAN : HelloRequestEnds(outcome, nul)
    \/ HelloSleepDone

SpecHello == Init /\ [][HelloNext]_vars

\* Launcher runs, one after the other, on one ITGmania folder.
InstallNext ==
    \/ /\ run.pc = "unset"
       /\ \E lines \in MetricsTexts, crlf \in BOOLEAN, final \in BOOLEAN,
             overlay \in [OverlayPaths -> {Absent, OtherPayload} \cup
                                             {ModPayload(p) : p \in OverlayPaths}],
             block \in BlockTexts :
             Setup(FileOf(lines, crlf, final), overlay, FileOf(block, FALSE, TRUE))
    \/ /\ run.pc = "unset"
       /\ \E overlay \in [OverlayPaths -> {Absent, OtherPayload}],
             block \in BlockTexts :
             Setup(Absent, overlay, FileOf(block, FALSE, TRUE))
    \/ /\ run.pc = "unset"
       /\ \E lines \in MetricsTexts, overlay \in [OverlayPaths -> {Absent, OtherPayload}] :
             Setup(FileOf(lines, FALSE, TRUE), overlay, Absent)
    \/ InstallStart
    \/ InstallMetricsBackup
    \/ InstallMetricsWrite
    \/ \E p \in OverlayPaths : InstallCopy(p)
    \/ InstallCopyWrite
    \/ InstallSaveManifest
    \/ InstallFails
    \/ UninstallRun

SpecInstall == Init /\ [][InstallNext]_vars

\* Launcher runs on a folder that is edited from outside while the mod is
\* uninstalled; the folder starts with a metrics.ini that has its [Common]
\* section.
ReinstallNext ==
    \/ /\ run.pc = "unset"
       /\ \E metrics \in EditedMetrics,
             overlay \in [OverlayPaths -> {Absent, OtherPayload}],
             block \in BlockTexts :
             Setup(metrics, overlay, FileOf(block, FALSE, TRUE))
    \/ InstallStart
    \/ InstallMetricsBackup
    \/ InstallMetricsWrite
    \/ \E p \in OverlayPaths : InstallCopy(p)
    \/ InstallCopyWrite
    \/ InstallSaveManifest
    \/ InstallFails
    \/ UninstallRun
    \/ \E p \in Paths : \E file \in OutsideFiles(p) : OutsideEdit(p, file)

SpecReinstall == Init /\ [][ReinstallNext]_vars

(***************************************************************************)
(* Properties of the codec (checked under SpecCodec)                       *)
(***************************************************************************)
\* Bytes of a frame on the wire: 2 length bytes, the command id, the payload.
FrameLen(frame) == 3 + Len(frame[2])

RECURSIVE TotalLen(_)
TotalLen(frames) ==
    IF frames = <<>> THEN 0 ELSE FrameLen(Head(frames)) + TotalLen(Tail(frames))

\* How many of the frames lie wholly within the first fed bytes of the stream.
RECURSIVE WholeFrames(_, _)
WholeFrames(frames, fed) ==
    IF frames = <<>> \/ FrameLen(Head(frames)) > fed THEN 0
    ELSE 1 + WholeFrames(Tail(frames), fed - FrameLen(Head(frames)))

BytesFed == TotalLen(c_frames) - Len(c_wire)

\* C1: decode run on a buffer that holds exactly encode(commandId, payload),
\* for commandId in 0..255 and payload lengths up to 65534, emits exactly
\* the one pair (commandId, payload) and leaves the buffer empty.
C1_RoundTrip ==
    c_mode = "roundtrip" =>
        /\ Len(c_out) = 1
        /\ c_out = c_frames
        /\ c_buffer = <<>>

\* C1 witness: the round trip of command id 255 with a 255-byte payload,
\* whose length 256 carries into the high length byte.
C1_Witness ==
    /\ c_mode = "roundtrip"
    /\ c_frames[1][1] = RSP_ERROR
    /\ Len(c_frames[1][2]) = 255
    /\ c_out = c_frames
    /\ c_buffer = <<>>

\* C2: however the bytes of N well-formed frames are cut into chunks, the
\* pairs emitted over all parse_packets calls are the frames wholly received
\* so far, in their original order, each once; when every byte has been fed
\* they are exactly the N frames and nothing is left in the buffer.
C2_StreamReassembly ==
    c_mode = "stream" =>
        /\ c_out = SubSeq(c_frames, 1, WholeFrames(c_frames, BytesFed))
        /\ (c_wire = <<>> => c_out = c_frames /\ c_buffer = <<>>)

\* C2 witness: the two frames of the documented scenario, 00 01 01 and
\* 00 02 90 7B, decoded after a cut inside a length prefix and with two
\* frames emitted by one call.
C2_Witness ==
    /\ c_mode = "stream"
    /\ c_wire = <<>>
    /\ Len(c_frames) = MaxStreamFrames
    /\ SubSeq(c_out, 1, 2) = <<<<CMD_HELLO, <<>>>>, <<RSP_GET_STATUS, <<123>>>>>>
    /\ c_seen.cutInLength
    /\ c_seen.manyInOneCall

\* C21: encode(commandId, payload) is the 2-byte big-endian value
\* 1 + len(payload), then the commandId byte, then the payload bytes
\* unchanged, for commandId in 0..255 and payload lengths up to 65534;
\* encode(0x01, empty) is the bytes 00 01 01.
C21_EncodeLayout ==
    /\ c_packet # <<>> =>
          LET command_id == c_frames[Len(c_frames)][1]
              payload == c_frames[Len(c_frames)][2]
          IN  /\ Len(c_packet) = 3 + Len(payload)
              /\ c_packet[1] \in Byte
              /\ c_packet[2] \in Byte
              /\ c_packet[1] * 256 + c_packet[2] = 1 + Len(payload)
              /\ c_packet[3] = command_id
              /\ SubSeq(c_packet, 4, Len(c_packet)) = payload
    /\ (c_mode = "roundtrip" /\ c_frames = <<<<CMD_HELLO, <<>>>>>>) =>
          c_packet = <<0, 1, 1>>

\* C21 witness: a payload of 256 bytes encoded with command id 16: the
\* length 257 takes both length bytes, 01 01.
C21_Witness ==
    /\ c_mode = "roundtrip"
    /\ c_frames[1][1] = CMD_GET_STATUS
    /\ Len(c_frames[1][2]) = 256
    /\ SubSeq(c_packet, 1, 3) = <<1, 1, CMD_GET_STATUS>>

\* A parse_packets call has returned; c_in is the buffer it was given.
Decoded == c_in # <<>>

\* The buffer holds fewer than 3 bytes, or fewer than 2 + length bytes.
Incomplete(buffer) ==
    \/ Len(buffer) < 3
    \/ Len(buffer) < 2 + (buffer[1] * 256 + buffer[2])

\* C24: a decode call on a buffer whose first frame is incomplete emits
\* nothing and leaves the buffer as it was; after any decode call the buffer
\* is the suffix of the input that was not consumed (for a stream of frames:
\* the bytes fed less the frames emitted) and has no complete frame at its
\* front.
C24_PartialDataRetained ==
    Decoded =>
        /\ Incomplete(c_in) => (c_last = <<>> /\ c_buffer = c_in)
        /\ Len(c_buffer) <= Len(c_in)
        /\ c_buffer = SubSeq(c_in, Len(c_in) - Len(c_buffer) + 1, Len(c_in))
        /\ c_mode = "stream" => Len(c_buffer) = BytesFed - TotalLen(c_out)
        /\ Incomplete(c_buffer)

\* C24 witness: a call that was given a length prefix and a command id
\* without the payload they announce emitted nothing and kept the three
\* bytes; and a call on raw bytes that emitted a frame kept the one byte
\* behind it.
C24_Witness ==
    \/ /\ c_mode = "stream"
       /\ Len(c_in) = 3
       /\ c_in[2] > 1
       /\ c_last = <<>>
       /\ c_buffer = c_in
    \/ /\ c_mode = "raw"
       /\ c_in = <<0, 1, 2, 1>>
       /\ c_last = <<<<2, <<>>>>>>
       /\ c_buffer = <<1>>

\* The bytes of the frames that carry the pairs, each under the frame
\* invariant: length = 1 + len(payload) in two bytes, commandId, payload.
RECURSIVE FramesOf(_)
FramesOf(packets) ==
    IF packets = <<>> THEN <<>>
    ELSE LET command_id == Head(packets)[1]
             payload == Head(packets)[2]
             length == 1 + Len(payload)
         IN  <<length \div 256, length % 256, command_id>> \o payload
                 \o FramesOf(Tail(packets))

\* C25: for the pairs a decode call emits from any byte stream, the bytes
\* the call consumed are the frames of those pairs: each length prefix read
\* is 1 + len(payload) >= 1, the commandId is the byte after it inside the
\* consumed frame, and 2 + length bytes were consumed - also when the stream
\* holds a length prefix of 0.
C25_FrameInvariantOnDecode ==
    Decoded =>
        SubSeq(c_in, 1, Len(c_in) - Len(c_buffer)) = FramesOf(c_last)

(***************************************************************************)
(* Properties of the session (checked under Spec)                          *)
(***************************************************************************)
ItemIds == 1..Len(hist)
Queues == DOMAIN qitems

\* Where an item that recv_loop put on a queue is now.
InItsQueue(i) ==
    \E k \in 1..Len(qitems[hist[i].q]) : qitems[hist[i].q][k][1] = i
PlacesQueued(i) ==
    {p \in Queues \X (1..MaxFrames) :
        p[2] <= Len(qitems[p[1]]) /\ qitems[p[1]][p[2]][1] = i}
\* taken by a get() task of a request that has not resumed yet
HeldBy(i) ==
    {<<r, side>> \in Reqs \X Sides :
        /\ req[r].pc = "waiting"
        /\ req[r].task[side].st = "done"
        /\ req[r].task[side].item[1] = i}
\* handed to a request as its outcome (the response or the RemoteError)
HandedTo(i) == {r \in Reqs : Done(r) /\ req[r].got[1] = i}

ExpectedQueue(r) == req[r].task.exp.q
ErrorQueueOf(r) == req[r].task.err.q

\* The number a peer's payload is the JSON text of (one decimal digit).
PeerValue(payload) == payload[1] - 48

\* Two request() calls that did not overlap in time.
Apart(r1, r2) == r1 \in req[r2].after \/ r2 \in req[r1].after

\* C3: every payload that recv_loop has put on a response queue or on the
\* error queue is afterwards in exactly one place: still in that queue,
\* taken for a request that is about to resume, or handed to exactly one
\* request as its outcome.  None is dropped, none is delivered twice.
C3_NoItemDroppedOrDuplicated ==
    \A i \in ItemIds :
        /\ Cardinality(PlacesQueued(i)) + Cardinality(HeldBy(i))
              + Cardinality(HandedTo(i)) = 1
        /\ PlacesQueued(i) # {} => InItsQueue(i)

\* The requests that were pending, with neither wait resolved and the
\* deadline still ahead, on the error queue that ERROR item i went to, at
\* the moment recv_loop put it there.
PendingOn(i) ==
    {r \in hist[i].pending : /\ hist[i].q = ErrorQueueOf(r)
                             /\ hist[i].at < req[r].end_time}
FailedBy(i) ==
    {r \in Reqs : /\ req[r].outcome = "RemoteError"
                  /\ req[r].got[1] = i
                  /\ req[r].value = PeerValue(hist[i].payload)}

\* C4: an ERROR frame (kind 0xFF) that arrives while requests are pending
\* on the session's error queue fails one of them with RemoteError carrying
\* the JSON value of the frame's payload, and fails at most one: once the
\* requests that were pending at its arrival have all ended, exactly one
\* request has failed with that frame's payload, and until then at most one.
C4_ErrorFailsPendingRequest ==
    \A i \in ItemIds :
        hist[i].command_id = RSP_ERROR /\ PendingOn(i) # {} =>
            /\ Cardinality(FailedBy(i)) <= 1
            /\ (\A r \in PendingOn(i) : Done(r)) => Cardinality(FailedBy(i)) = 1

\* ---- C5 ----
KeyOf(command_id) == IF command_id = RSP_ERROR THEN ErrorKey ELSE command_id
NewItems == (Len(hist) + 1)..Len(hist')
EntriesOf(rd, r) == SelectSeq(rd, LAMBDA e : e.r = r)

QueuedByKind ==
    /\ \A i \in ItemIds : hist[i].q[2] = KeyOf(hist[i].command_id)
    /\ \A r \in Called :
          /\ req[r].task.exp.item # NoItem
                => hist[req[r].task.exp.item[1]].command_id = req[r].kind
          /\ req[r].outcome = "Response"
                => hist[req[r].got[1]].command_id = req[r].kind

OtherKindLeavesRequestAlone ==
    \A r \in Reqs :
        (/\ req[r].pc = "waiting"
         /\ NewItems # {}
         /\ \A i \in NewItems : hist'[i].command_id \notin {req[r].kind, RSP_ERROR})
        => /\ req'[r] = req[r]
           /\ EntriesOf(ready', r) = EntriesOf(ready, r)

\* C5: demultiplexing by kind.  Every payload is queued under its own
\* command id; a step of recv_loop that dispatches only frames of kinds
\* other than K1 (and no ERROR frame) leaves a pending request for K1
\* exactly as it was - not completed, not failed, not woken; and a payload
\* is only ever taken by, and returned to, a request that expects its kind.
C5_DemultiplexedByKind == [](QueuedByKind) /\ [][OtherKindLeavesRequestAlone]_vars

\* C5 witness: a frame of another kind arrived while a request was pending,
\* was returned to a later request of that other kind, and the first
\* request is still waiting on both of its queues.
C5_Witness ==
    \E r1, r2 \in Reqs, i \in ItemIds :
        /\ req[r1].pc = "waiting"
        /\ \A side \in Sides : req[r1].task[side].st = "wait"
        /\ r1 \in hist[i].pending
        /\ hist[i].command_id # req[r1].kind
        /\ req[r2].outcome = "Response"
        /\ req[r2].got[1] = i
        /\ req[r2].kind = hist[i].command_id

\* ---- C6 ----
Overlapped(r) ==
    {r0 \in Called \ {r} : ~Apart(r, r0) /\ ExpectedQueue(r0) = ExpectedQueue(r)}

QueuedBefore(q, t) ==
    {k \in 1..Len(qitems[q]) : hist[qitems[q][k][1]].at < t}

\* The queue that the session currently keeps for a response id.
LiveQueue(q) ==
    \E response_id \in DOMAIN response_queues : response_queues[response_id] = q

C8_OneOfThreeOutcomes ==
    \A r \in Reqs :
        (Done(r) /\ req[r].ws # None)
        => req[r].outcome \in {"Response", "RemoteError", "Timeout"}

\* ---- C9 ----
CallOf(r) == req[r].pc = "idle" /\ req'[r].pc # "idle"

NotConnectedCall ==
    \A r \in Reqs :
        (CallOf(r) /\ websocket = None)
        => /\ req'[r].pc = "done"
           /\ req'[r].outcome = "NotConnected"
           /\ sent' = sent
           /\ qitems' = qitems
           /\ qgetters' = qgetters
           /\ response_queues' = response_queues
           /\ ready' = ready

\* C9: a request issued while no transport is attached (before the first
\* attach or after detach) fails with NotConnected, and the call sends no
\* frame, takes no item from any queue and starts no wait; NotConnected is
\* the outcome of such calls only.
C9_NotConnected ==
    /\ [][NotConnectedCall]_vars
    /\ [](\A r \in Reqs :
             req[r].outcome = "NotConnected" =>
                 /\ req[r].ws = None
                 /\ req[r].got = NoItem
                 /\ req[r].task = IdleReq.task)

\* C9 witness: after a detach that left a payload queued, a request failed
\* with NotConnected, nothing was sent and the payload is still queued.
C9_Witness ==
    \E r \in Reqs, i \in ItemIds :
        /\ req[r].outcome = "NotConnected"
        /\ gen > 0
        /\ websocket = None
        /\ hist[i].command_id = req[r].kind
        /\ LiveQueue(hist[i].q)
        /\ InItsQueue(i)
        /\ \A t \in Transports : sent[t] = <<>>

\* ---- C10 ----
AttachStep ==
    gen' # gen =>
        /\ websocket' = gen'
        /\ rx_buffer' = <<>>
        /\ response_queues' = <<>>
        /\ error_queue' \notin DOMAIN qitems
        /\ qitems'[error_queue'] = <<>>
        /\ \A q \in DOMAIN qitems' : (LiveQueue(q)' \/ q = error_queue') => qitems'[q] = <<>>
        /\ connected_event'
        /\ ~ready_event'

DetachStep ==
    (\E t \in Transports : loop[t] = "running" /\ loop'[t] = "exited") =>
        /\ websocket' = None
        /\ ~connected_event'
        /\ ~ready_event'

\* C10: attach, in whatever state it is called, binds the new transport
\* and leaves an empty receive buffer, no response queue, a new and empty
\* error queue, Connected set and Ready cleared; detach (run when a
\* recv_loop ends) leaves no transport bound and Connected and Ready
\* cleared.
C10_AttachResetsDetachClears == [][AttachStep /\ DetachStep]_vars

\* C10 witness: a second attach happened after the first connection had
\* left a queued payload and the first bytes of a frame behind; the buffer
\* and the queues of the session are empty, Connected is set, Ready is not.
C10_Witness ==
    /\ gen = 2
    /\ websocket = 2
    /\ wire[1] # <<>>
    /\ \E i \in ItemIds : hist[i].q[1] = 1 /\ InItsQueue(i)
    /\ rx_buffer = <<>>
    /\ response_queues = <<>>
    /\ qitems[error_queue] = <<>>
    /\ connected_event
    /\ ~ready_event

(***************************************************************************)
(* Connection lifecycle (checked under Spec)                               *)
(***************************************************************************)
\* The transport of the latest attach (handler attaches connection gen).
LatestTransport == gen

\* recv_loop of transport t leaves its async-for in this step.
LoopExits(t) == loop[t] = "running" /\ loop'[t] = "exited"

\* Connected: a transport is bound and connected_event is set.
Connected == websocket # None /\ connected_event

ExitOfAttachedDetaches ==
    \A t \in Transports :
        (LoopExits(t) /\ websocket = t) =>
            /\ websocket' = None
            /\ ~connected_event'
            /\ ~ready_event'

NoExitedTransportBound ==
    /\ \A t \in Transports : loop[t] = "exited" => websocket # t
    /\ connected_event => (websocket # None /\ loop[websocket] = "running")
    /\ (ready_event /\ websocket # None) => loop[websocket] = "running"

\* C11: when the recv_loop of the attached transport exits (the finally
\* clause of lines 168-171 covers every way out of the loop), detach has
\* run in the same step: no transport is bound, Connected and Ready are
\* cleared; and in no state is a transport bound, or Connected set, whose
\* recv_loop has exited.
C11_DetachOnLoopExit == [](NoExitedTransportBound) /\ [][ExitOfAttachedDetaches]_vars

\* C11 witness: the only transport was attached, a heartbeat made the
\* session Ready, the connection closed and recv_loop exited; nothing is
\* bound and Connected and Ready are clear.
C11_Witness ==
    /\ gen = 1
    /\ 1 \in heard
    /\ loop[1] = "exited"
    /\ websocket = None
    /\ ~connected_event
    /\ ~ready_event

\* C12: the session is Connected if and only if the recv_loop of the most
\* recently attached transport has not exited.
C12_ConnectedIffLatestOpen ==
    Connected <=> (LatestTransport # None /\ loop[LatestTransport] = "running")

\* C13: Ready implies Connected and a heartbeat received from the attached
\* transport since the latest attach; Ready is never set while the session
\* is not Connected.
C13_ReadyImpliesConnected ==
    /\ [](ready_event => (Connected /\ websocket \in heard))
    /\ [][(~ready_event /\ ready_event') => Connected]_vars

\* recv_loop of transport t receives a binary message in this step (line
\* 161 appends it to rx_buffer): a new frame of the peer, or the rest of a
\* frame that was cut.
ReceivesBinary(t) ==
    \/ Len(made') > Len(made) /\ made'[Len(made')].transport = t
    \/ wire[t] # <<>> /\ wire'[t] = <<>>

\* C14: only the most recently attached transport feeds the session: every
\* binary message appended to rx_buffer comes from it, and every payload
\* was put on a queue of the attachment of the transport it came from.
C14_SingleActiveTransport ==
    /\ [](\A i \in ItemIds : hist[i].transport = hist[i].q[1])
    /\ [][\A t \in Transports : ReceivesBinary(t) => t = LatestTransport]_vars

(***************************************************************************)
(* Properties of hello_with_retry (checked under SpecHello)                *)
(***************************************************************************)
\* Attempts made so far, and whether attempt i failed.
Attempts == Len(hello.log)
Failed(i) == hello.log[i].outcome # "Response"

\* Request frames written to the connections so far.
RECURSIVE FramesSentUpTo(_)
FramesSentUpTo(t) == IF t = 0 THEN 0 ELSE Len(sent[t]) + FramesSentUpTo(t - 1)
FramesSent == FramesSentUpTo(MaxTransports)

HelloFrame == <<0, 1, CMD_HELLO>>
OnlyHelloFrames ==
    \A t \in Transports : \A k \in 1..Len(sent[t]) : sent[t][k] = HelloFrame

\* Attempts that failed before their frame was written.
FailedBeforeSend ==
    {i \in 1..Attempts : hello.log[i].outcome \in {"NotConnected", "SendFailed"}}

\* hello_with_retry(max_attempts = 3) saw two failed attempts and then a
\* successful one.
TwoFailuresThenSuccess ==
    /\ hello.max_attempts = 3
    /\ Attempts >= 3
    /\ Failed(1)
    /\ Failed(2)
    /\ ~Failed(3)

ThreeAttemptsOnSchedule ==
    /\ Attempts = 3
    /\ hello.log[1].timeout = 10
    /\ hello.log[2].timeout = 20
    /\ hello.log[3].timeout = 30
    /\ hello.pc = "returned"
    /\ hello.result = hello.log[3].value
    /\ OnlyHelloFrames

\* C15 as stated: two failed attempts followed by a successful one make
\* exactly 3 attempts with timeouts 10 s, 20 s, 30 s, exactly 3 HELLO
\* frames sent, and the value of the third attempt returned.
C15_ThreeAttemptsThreeFrames ==
    TwoFailuresThenSuccess => (ThreeAttemptsOnSchedule /\ FramesSent = 3)

\* C15, amended: two failed attempts followed by a successful one make
\* exactly 3 attempts with timeouts 10 s, 20 s, 30 s and return the value
\* of the third; one HELLO frame is sent for every attempt that did not
\* fail before the send (NotConnected, or a send on a closed connection),
\* so exactly 3 frames are sent when both failures came after the send.
C15_ThreeAttemptsFramePerSend ==
    TwoFailuresThenSuccess =>
        /\ ThreeAttemptsOnSchedule
        /\ FramesSent = 3 - Cardinality(FailedBeforeSend)
        /\ (FailedBeforeSend = {} => FramesSent = 3)

\* C15 witness: a Timeout, a RemoteError and then a response; 3 frames were
\* sent and the third attempt's value was returned.
C15_Witness ==
    /\ TwoFailuresThenSuccess
    /\ hello.log[1].outcome = "Timeout"
    /\ hello.log[2].outcome = "RemoteError"
    /\ hello.pc = "returned"
    /\ hello.result = 3
    /\ FramesSent = 3

\* The timeout of attempt number i (from 1): 10 s, 20 s, 30 s, then 30 s.
ScheduledTimeout(i) == IF i = 1 THEN 10 ELSE IF i = 2 THEN 20 ELSE 30

\* C16: for max_attempts >= 1, attempt i uses the timeout 10, 20, 30, 30,
\* ...; no attempt follows a successful one, whose value is returned; the
\* terminal failure is raised exactly when max_attempts attempts were made
\* and all failed, whatever the failures; never more than max_attempts
\* attempts.
C16_RetrySchedule ==
    hello.max_attempts >= 1 =>
        /\ Attempts <= hello.max_attempts
        /\ \A i \in 1..Attempts : hello.log[i].timeout = ScheduledTimeout(i)
        /\ \A i \in 1..Attempts : (~Failed(i)) => i = Attempts
        /\ \A i \in 1..Attempts : Failed(i) => hello.log[i].outcome \in Failures
        /\ (hello.pc = "returned") <=> (Attempts >= 1 /\ ~Failed(Attempts))
        /\ hello.pc = "returned" => hello.result = hello.log[Attempts].value
        /\ hello.pc = "raised" =>
              (Attempts = hello.max_attempts /\ \A i \in 1..Attempts : Failed(i))
        /\ (Attempts = hello.max_attempts /\ \A i \in 1..Attempts : Failed(i)) =>
              hello.pc \in {"sleep", "raised"}

\* C16 witness: four attempts that failed in three different ways, the
\* fourth with the 30 s timeout again; the terminal failure was raised.
C16_Witness ==
    /\ hello.max_attempts = 4
    /\ hello.pc = "raised"
    /\ Attempts = 4
    /\ hello.log[1].outcome = "NotConnected"
    /\ hello.log[2].outcome = "Timeout"
    /\ hello.log[3].outcome = "RemoteError"
    /\ hello.log[4].outcome = "Timeout"
    /\ hello.log[4].timeout = 30

\* ---- C23 ----
\* recv_loop of transport t receives a binary message in this step, and the
\* bytes of the message: the front of the frame the peer has just produced,
\* or the bytes of a frame that were still under way.
Receives(t) ==
    \/ wire'[t] # wire[t]
    \/ Len(made') = Len(made) + 1 /\ made'[Len(made')].transport = t
Delivered(t) ==
    IF Len(made') = Len(made) + 1
    THEN LET frame == made'[Len(made')]
             bytes == FramesOf(<<<<frame.command_id, frame.payload>>>>)
         IN  SubSeq(bytes, 1, Len(bytes) - Len(wire'[t]))
    ELSE wire[t]

\* The queues that hold item i after the step, with its payload.
QueuesHolding(i, payload) ==
    {q \in DOMAIN qitems' :
        \E k \in 1..Len(qitems'[q]) : qitems'[q][k] = <<i, payload>>}

\* Every frame decoded in the step is on one queue: the error queue for
\* 0xFF, else the queue of its command id, created now if there was none.
RoutedToOneQueue ==
    \A t \in Transports :
        Receives(t) =>
            LET packets == parse_packets(rx_buffer \o Delivered(t)).packets
            IN  /\ Len(hist') = Len(hist) + Len(packets)
                /\ error_queue' = error_queue
                /\ \A k \in 1..Len(packets) :
                      LET command_id == packets[k][1]
                          holding == QueuesHolding(Len(hist) + k, packets[k][2])
                      IN  /\ Cardinality(holding) = 1
                          /\ (command_id = RSP_ERROR) = (holding = {error_queue})
                          /\ command_id # RSP_ERROR =>
                                /\ command_id \in DOMAIN response_queues'
                                /\ holding = {response_queues'[command_id]}
                                /\ IF command_id \in DOMAIN response_queues
                                   THEN response_queues'[command_id]
                                            = response_queues[command_id]
                                   ELSE response_queues'[command_id]
                                            \notin DOMAIN qitems
                /\ \A response_id \in DOMAIN response_queues' :
                      \/ response_id \in DOMAIN response_queues
                      \/ \E k \in 1..Len(packets) : packets[k][1] = response_id

\* A queue holds its payloads in the order of arrival, and a payload has
\* left its queue only if every payload that arrived there before it has.
HeldInArrivalOrder ==
    \A q \in Queues : \A k, l \in 1..Len(qitems[q]) :
        k < l => qitems[q][k][1] < qitems[q][l][1]
HandedOutInArrivalOrder ==
    \A i, j \in ItemIds :
        (i < j /\ hist[i].q = hist[j].q /\ ~InItsQueue(j)) => ~InItsQueue(i)

\* C23: every decoded frame is put on exactly one queue - the error queue
\* if and only if its commandId is 0xFF, otherwise the queue keyed by its
\* commandId, created on first use - and each queue holds and hands out its
\* payloads in the order their frames arrived.
C23_RoutingFifo ==
    /\ [](HeldInArrivalOrder /\ HandedOutInArrivalOrder)
    /\ [][RoutedToOneQueue]_vars

\* C23 witness: two frames of one kind and one attachment arrived, the
\* first has been returned to a request and the second is still queued;
\* or an ERROR frame and a response frame arrived in one binary message
\* and lie on the error queue and on the response queue.
C23_Witness ==
    \/ \E i, j \in ItemIds :
          /\ i < j
          /\ hist[i].q = hist[j].q
          /\ hist[i].command_id # RSP_ERROR
          /\ \E r \in Reqs : req[r].outcome = "Response" /\ req[r].got[1] = i
          /\ InItsQueue(j)
    \/ \E i, j \in ItemIds :
          /\ hist[i].command_id = RSP_ERROR
          /\ hist[j].command_id # RSP_ERROR
          /\ hist[i].q = error_queue
          /\ InItsQueue(i)
          /\ InItsQueue(j)

\* ---- C26 ----
Pending(r) == req[r].pc = "waiting"

\* Request r is pending and the recv_loop of the transport it was sent on
\* has exited: detach has run since the call.
PendingAfterDetach(r) == Pending(r) /\ loop[req[r].ws] = "exited"

\* No payload has been put on the two queues request r waits on.
NothingQueuedFor(r) ==
    \A i \in ItemIds : hist[i].q \notin {ExpectedQueue(r), ErrorQueueOf(r)}

\* The step in which a recv_loop exits and detach runs leaves every request,
\* the wake-ups scheduled for it, and every queue as they were.
DetachFailsNoRequest ==
    (\E t \in Transports : LoopExits(t)) =>
        /\ req' = req
        /\ ready' = ready
        /\ qitems' = qitems
        /\ qgetters' = qgetters

\* A request that ends after detach ran does not end with NotConnected and,
\* with nothing queued for it, ends with Timeout once its deadline is there.
EndsAfterDetach ==
    \A r \in Reqs :
        (PendingAfterDetach(r) /\ req'[r].pc = "done") =>
            /\ req'[r].outcome # "NotConnected"
            /\ NothingQueuedFor(r) =>
                  /\ req'[r].outcome = "Timeout"
                  /\ clock >= req[r].end_time
                  /\ req'[r].finished_at >= req[r].end_time

\* C26: a request that is pending when the transport closes and detach runs
\* is not failed by the detach; with no item of its expected kind and no
\* error item queued it fails with Timeout at its own deadline and not
\* earlier; it never fails with NotConnected.
C26_PendingOutlivesDetach ==
    /\ [][DetachFailsNoRequest /\ EndsAfterDetach]_vars
    /\ [](\A r \in Reqs :
             /\ req[r].outcome = "NotConnected" => req[r].task = IdleReq.task
             /\ (/\ Done(r)
                 /\ req[r].outcome \notin {"NotConnected", "SendFailed"}
                 /\ NothingQueuedFor(r)) =>
                   /\ req[r].outcome = "Timeout"
                   /\ req[r].finished_at >= req[r].end_time)

\* C26 witness: a request was pending when its connection closed and detach
\* ran; no payload ever arrived; it is still pending at its deadline, one
\* time unit after the call, with the wait's timeout fired and no task
\* finished, so that Timeout is what it resumes to.
C26_Witness ==
    \E r \in Reqs :
        /\ PendingAfterDetach(r)
        /\ req[r].timeout > 0
        /\ websocket = None
        /\ hist = <<>>
        /\ clock >= req[r].end_time
        /\ req[r].wake = "set"
        /\ DoneSides(r) = {}

\* ---- C28 ----
\* ERROR item i was dispatched while no request was pending, and is the
\* first ERROR item dispatched since the attach that made its queue.
StaleError(i) ==
    /\ hist[i].command_id = RSP_ERROR
    /\ hist[i].called = hist[i].after
    /\ \A i0 \in 1..(i - 1) : hist[i0].q # hist[i].q

\* Request r is the first request issued after item i was dispatched, and
\* it was issued on the attachment whose error queue holds the item, with
\* nothing queued for its own kind.
NextRequestAfter(i, r) ==
    /\ r \notin hist[i].called
    /\ \A r0 \in 1..(r - 1) : r0 \in hist[i].called
    /\ req[r].pc # "idle"
    /\ req[r].ws = hist[i].q[1]
    /\ req[r].head = 0

\* C28: an ERROR frame dispatched while no request is pending stays on the
\* error queue, and the next request issued on that attachment - of either
\* kind, with no item of its expected kind queued - fails with RemoteError
\* carrying the stale payload.
C28_StaleErrorFailsNextRequest ==
    \A i \in ItemIds :
        StaleError(i) =>
            /\ (\A r \in Reqs \ hist[i].called : req[r].pc = "idle") => InItsQueue(i)
            /\ \A r \in Reqs :
                  (NextRequestAfter(i, r) /\ Done(r)) =>
                      /\ req[r].outcome = "RemoteError"
                      /\ req[r].got = <<i, hist[i].payload>>
                      /\ req[r].value = PeerValue(hist[i].payload)

\* ---- C29 ----
\* The items a get() task of request r has taken, or r has ended with.
TakenBy(r) ==
    {i \in ItemIds : \/ req[r].got[1] = i
                     \/ \E side \in Sides : req[r].task[side].item[1] = i}

\* Item i is a response of the kind request r expects, dispatched after an
\* attach that came while r was pending, and before r's deadline.
ArrivedAfterReattach(i, r) ==
    /\ req[r].pc \in {"waiting", "done"}
    /\ req[r].outcome \notin {"NotConnected", "SendFailed"}
    /\ hist[i].command_id = req[r].kind
    /\ hist[i].gen > req[r].ws
    /\ r \in hist[i].called \ hist[i].after
    /\ hist[i].at < req[r].end_time

\* C29: a request pending when attach binds a new transport is never
\* satisfied by a response of its kind dispatched after that attach: what
\* it takes was dispatched in the attachment it was issued in; with nothing
\* queued for it before the attach it ends with Timeout although a matching
\* response arrives before its deadline; and that response stays queued
\* until a request issued after the attach takes it.
C29_PendingRequestMissesNewTransport ==
    \A r \in Reqs :
        /\ \A i \in TakenBy(r) :
              hist[i].command_id # RSP_ERROR => hist[i].gen = req[r].ws
        /\ \A i \in ItemIds :
              ArrivedAfterReattach(i, r) =>
                  /\ i \notin TakenBy(r)
                  /\ hist[i].q # ExpectedQueue(r)
                  /\ (Done(r) /\ NothingQueuedFor(r)) =>
                        (req[r].outcome = "Timeout"
                            /\ req[r].finished_at >= req[r].end_time)
                  /\ \/ InItsQueue(i)
                     \/ \E r2 \in Reqs \ {r} :
                           i \in TakenBy(r2) /\ req[r2].ws = hist[i].gen

\* C29 witness: a request was pending on the first transport when the second
\* was attached; a response of its kind arrived on the second transport
\* before its deadline; the request has ended with Timeout and the response
\* lies on the session's queue of that kind.
C29_Witness ==
    \E r \in Reqs, i \in ItemIds :
        /\ ArrivedAfterReattach(i, r)
        /\ hist[i].transport = websocket
        /\ req[r].outcome = "Timeout"
        /\ NothingQueuedFor(r)
        /\ LiveQueue(hist[i].q)
        /\ InItsQueue(i)

(***************************************************************************)
(* Properties of the receive loop (checked under SpecRecv)                 *)
(***************************************************************************)
\* recv_loop handles a text message in this step; the message is what
\* follows the tag in the line it prints.
TextStep == Len(printed') = Len(printed) + 1
TextHandled ==
    LET line == printed'[Len(printed')]
    IN  IF Len(line) >= 3 /\ SubSeq(line, 1, 3) = <<"INFO", "TEXT", "|">>
        THEN SubSeq(line, 4, Len(line))
        ELSE Tail(line)

TextSetsReadyOnHeartbeatOnly ==
    TextStep =>
        /\ ready_event' = IF Len(TextHandled) >= 2 /\ TextHandled[1] = "HEARTBEAT"
                                /\ TextHandled[2] = "|"
                             THEN TRUE
                             ELSE ready_event
        /\ UNCHANGED <<websocket, connected_event, rx_buffer, response_queues,
                       error_queue, qitems, qgetters, gen, hist>>

\* C22: a text message that begins with the heartbeat marker sets Ready; one
\* that begins with the screen-status marker, and any other text message,
\* changes no session state; no text message changes the receive buffer, a
\* response queue or the error queue.
C22_TextSideChannel == [][TextSetsReadyOnHeartbeatOnly]_vars

\* C22 witness: with half a frame in the receive buffer, a payload on a
\* response queue and Ready clear, recv_loop has handled a screen-status
\* message whose text goes on with the heartbeat marker, and then a
\* heartbeat that set Ready.
C22_Witness ==
    /\ printed = <<text_line(SCREEN_MARK \o HEARTBEAT_MARK),
                   text_line(HEARTBEAT_MARK \o <<"12">>)>>
    /\ ready_event
    /\ rx_buffer # <<>>
    /\ \E q \in DOMAIN qitems : qitems[q] # <<>>

(***************************************************************************)
(* Properties of hello_with_retry, continued (checked under SpecHello)     *)
(***************************************************************************)
\* C27: every 1-second pause of helloWithRetry comes after a failed attempt
\* and is followed by another attempt: while it pauses, attempts are left;
\* a call that has ended after n attempts has paused n - 1 times, and has
\* not paused between the last failed attempt and the terminal failure.
C27_PauseBetweenAttempts ==
    /\ hello.pc = "sleep" =>
          (Attempts >= 1 /\ Failed(Attempts) /\ Attempts < hello.max_attempts)
    /\ (hello.pc \in {"returned", "raised"} /\ Attempts >= 1) =>
          hello.pauses = Attempts - 1

(***************************************************************************)
(* Properties of the driver loop (checked under SpecDriver)                *)
(***************************************************************************)
\* C30: every test cycle the driver starts is started with the session
\* Connected and Ready, on a connection that has sent a heartbeat since it
\* was attached - whatever the interleaving of connects, disconnects and
\* reconnects with the driver loop.
C30_CycleOnlyWhenReady ==
    \A k \in 1..Len(driver.started) :
        /\ driver.started[k].connected
        /\ driver.started[k].websocket # None
        /\ driver.started[k].ready
        /\ driver.started[k].heartbeat

(***************************************************************************)
(* Properties of the launcher (checked under SpecInstall)                  *)
(***************************************************************************)
\* Run number k was an install, or an uninstall, that ended without error.
Installed(k) == k \in 1..Len(runs) /\ runs[k] = [op |-> "install", result |-> "ok"]
Uninstalled(k) == k \in 1..Len(runs) /\ runs[k] = [op |-> "uninstall", result |-> "ok"]
BetweenRuns == run.pc = "idle"

\* The manifest on disk has an entry for destination p that uninstall can
\* undo: its change kind and, for a modified file, the backup.
HasEntry(p) ==
    /\ manifest_file.exists
    /\ \E k \in 1..Len(manifest_file.files) :
          LET entry == manifest_file.files[k]
          IN  /\ entry.destination_path = p
              /\ entry.change_kind \in {"modify", "create"}
              /\ entry.change_kind = "modify" => entry.backup_path = compute_backup_path(p)

\* An install run is going on right after an install run that succeeded.
InstallAfterInstall == run.op = "install" /\ Installed(Len(runs))

\* C17: an install run that follows a successful install run changes no
\* file of the ITGmania folder and no backup while it runs, and when it has
\* succeeded the manifest has the entries it had.
C17_InstallIdempotent ==
    /\ InstallAfterInstall => (tree = before.tree /\ backups = before.backups)
    /\ (BetweenRuns /\ Installed(Len(runs)) /\ Installed(Len(runs) - 1)) => Disk = before

\* The launcher writes destination p in this step of an install run.
InstallWrites(p) == run.op = "install" /\ tree'[p] # tree[p]

BackupBeforeWrite ==
    \A p \in Paths : (InstallWrites(p) /\ tree[p].exists) => backups[p].exists

BackupKept ==
    \A p \in Paths : backups[p].exists => backups'[p] = backups[p]

\* What destination p held before the launcher first changed it: its
\* content then, or what it holds now when the launcher has not changed it.
BeforeFirstChange(p) == IF first[p].exists THEN first[p] ELSE tree[p]

\* C18: an install run writes a destination file that existed only when
\* its backup exists already; a backup that exists is never changed or
\* removed, and holds what the file held just before the launcher first
\* changed it.
C18_BackupBeforeModify ==
    /\ [][BackupBeforeWrite /\ BackupKept]_vars
    /\ [](\A p \in Paths : backups[p].exists => backups[p] = BeforeFirstChange(p))

\* C18 witness: a second install run has overwritten an existing file
\* again; the backup still holds what the file held before the first run.
C18_Witness ==
    /\ Installed(1)
    /\ Installed(2)
    /\ BetweenRuns
    /\ tree[METRICS] # before.tree[METRICS]
    /\ before.tree[METRICS] # orig[METRICS]
    /\ backups[METRICS] = orig[METRICS]
    /\ \E p \in OverlayPaths : backups[p] = OtherPayload /\ tree[p] = ModPayload(p)

\* C19: from a folder with no manifest and no backups, a successful
\* install followed by uninstall leaves every file that existed with the
\* content it had and no file that the install created; a second uninstall
\* changes nothing.
C19_InstallUninstallRoundTrip ==
    /\ (BetweenRuns /\ Len(runs) = 2 /\ Installed(1) /\ Uninstalled(2)) => tree = orig
    /\ (BetweenRuns /\ Len(runs) = 3 /\ Installed(1) /\ Uninstalled(2)
          /\ runs[3].op = "uninstall") =>
              (runs[3].result = "ok" /\ tree = orig /\ Disk = before)

\* C19 witness: the install patched metrics.ini, overwrote one payload
\* file or created it, and two uninstall runs have followed.
C19_Witness ==
    /\ BetweenRuns
    /\ Len(runs) = 3
    /\ Installed(1)
    /\ Uninstalled(2)
    /\ Uninstalled(3)
    /\ METRICS \in touched
    /\ backups[METRICS].exists
    /\ \E p \in OverlayPaths : p \in touched
    /\ tree = orig

\* C20: when an install run has ended, with or without error, every file
\* the launcher has created or modified has its entry in the manifest on
\* disk.
C20_ManifestRecordsChanges ==
    (BetweenRuns /\ Len(runs) >= 1 /\ runs[Len(runs)].op = "install") =>
        \A p \in touched : HasEntry(p)

\* The preconditions of install_or_repair_mod fail on the disk d: there is
\* no metrics.ini, no kiosk block in the mod source, or metrics.ini is not
\* yet patched and has no [Common] section.
NoCommonSection(d) ==
    /\ d.tree[METRICS].exists
    /\ block_file.exists
    /\ ~metrics_file_has_kiosk_mod(d.tree[METRICS].lines)
    /\ ~HasSection(d.tree[METRICS].lines, H_COMMON)

PreconditionsFail(d) ==
    \/ ~d.tree[METRICS].exists
    \/ ~block_file.exists
    \/ NoCommonSection(d)

LastRunWasInstall == BetweenRuns /\ Len(runs) >= 1 /\ runs[Len(runs)].op = "install"

\* C32: an install run whose preconditions fail (metrics.ini missing, the
\* kiosk block asset missing, or metrics.ini not yet patched and without a
\* [Common] section) ends with an error, and the files of the ITGmania
\* folder, the backups and the manifest on disk are what they were before
\* the run; no such run gets as far as its first backup.
C32_InstallAbortsUntouched ==
    /\ (LastRunWasInstall /\ PreconditionsFail(before)) =>
           (runs[Len(runs)].result = "failed" /\ Disk = before)
    /\ (run.op = "install" /\ run.pc # "idle") => ~PreconditionsFail(before)

\* C32 witness: an install run has failed because metrics.ini has no
\* [Common] section, in a folder with a payload file that the copy step
\* would have overwritten.
C32_Witness ==
    /\ LastRunWasInstall
    /\ NoCommonSection(before)
    /\ runs[Len(runs)].result = "failed"
    /\ \E p \in OverlayPaths : tree[p] = OtherPayload

(***************************************************************************)
(* Properties of the launcher over repeated use (checked under            *)
(* SpecReinstall)                                                          *)
(***************************************************************************)
\* No run has failed, and the latest run is an uninstall right after an
\* install; prior is the disk as that install found it, before the disk as
\* it left it.
UninstallAfterInstall ==
    /\ BetweenRuns
    /\ edited = {}
    /\ Len(runs) >= 2
    /\ \A k \in 1..Len(runs) : runs[k].result = "ok"
    /\ Uninstalled(Len(runs))
    /\ Installed(Len(runs) - 1)

\* The install before the latest run modified the existing file p.
ModifiedByInstall(p) == prior.tree[p].exists /\ before.tree[p] # prior.tree[p]

\* C31: over any sequence of successful install and uninstall runs, with
\* files edited from outside while the mod is uninstalled, an uninstall
\* that follows an install leaves every file which that install modified
\* with the content the file had immediately before that install.
C31_UninstallRestoresLatestOriginal ==
    UninstallAfterInstall =>
        \A p \in Paths : ModifiedByInstall(p) => tree[p] = prior.tree[p]

====
